---- MODULE Spec2Model ----
(***************************************************************************)
(* Model of the Viture HID driver (src/public/injected.js, class           *)
(* VitureHID): the CRC-16 checksum and command packet builder, the device  *)
(* session manager (connect / checkExistingConnection / _startIMU /        *)
(* disconnect) and the input-report handler with its parsers, calibration  *)
(* and subscriber notification.                                            *)
(*                                                                         *)
(* Asynchronous methods are modelled one step per await: everything the    *)
(* code executes between two awaits is one atomic action.                  *)
(***************************************************************************)
EXTENDS Integers, Sequences, FiniteSets, TLC

(* ------------------------------ bounds --------------------------------- *)
NumDev == 3       \* HID interfaces known to the host
MaxCalls == 2     \* connect / checkExistingConnection / disconnect calls
MaxFaults == 2    \* injected failures of device.open / sendReport / close
MaxReports == 1   \* input reports handled
MaxSubs == 2      \* subscribe calls
MaxSamples == 3   \* input reports handled in the calibration specification
MaxSubscriptions == 3   \* subscribe calls in the subscriber specification
MaxDeliveries == 2      \* 'inputreport' events dispatched by the interfaces
MaxBuilds == 2          \* direct calls of the command builder
MaxInterleaved == 2     \* input reports handled in the re-entrancy specification
MaxOverlapCalls == 3    \* calls made where calls may overlap
MaxRegistrations == 3   \* requestAnimationFrame calls on the XR session
MaxFrames == 3          \* frames the XR session loop runs
MaxRequests == 3        \* select-hid-device events
MaxMessages == 2        \* tracking-data messages the forwarder receives

(* ------------------------- program constants --------------------------- *)
VENDOR_ID == 13770                              \* 0x35ca
PRODUCT_IDS_ONE == {4113, 4115, 4119}           \* 0x1011 0x1013 0x1017
PRODUCT_IDS_ONE_LITE == {4117, 4123}            \* 0x1015 0x101b
PRODUCT_IDS_PRO == {4121, 4125}                 \* 0x1019 0x101d
PRODUCT_IDS_LUMA_PRO == {4385, 4417}            \* 0x1121 0x1141
PRODUCT_IDS_LUMA == {4401}                      \* 0x1131
ALL_PRODUCT_IDS ==
  PRODUCT_IDS_ONE \cup PRODUCT_IDS_ONE_LITE \cup PRODUCT_IDS_PRO
    \cup PRODUCT_IDS_LUMA_PRO \cup PRODUCT_IDS_LUMA

Devs == 1..NumDev
DevIdx == 0..(NumDev - 1)   \* the device index a listener passes on
NullDev == 0      \* this.device === null
UndefDev == -1    \* this.device === undefined (vitureDevices[0] of an empty array)

\* vendor / product identity of each host interface, by enumeration index:
\* a Viture One, a Viture Pro, a foreign vendor's interface, a Viture Luma,
\* then unsupported products of the vendor
DevKinds ==
  << [vendorId |-> VENDOR_ID, productId |-> 4113],
     [vendorId |-> VENDOR_ID, productId |-> 4121],
     [vendorId |-> 1133, productId |-> 4113],
     [vendorId |-> VENDOR_ID, productId |-> 4401] >>

devKind ==
  [d \in Devs |-> IF d <= Len(DevKinds) THEN DevKinds[d]
                  ELSE [vendorId |-> VENDOR_ID, productId |-> 39321]]

(* ------------------------- bit operations ------------------------------ *)
RECURSIVE BitXor(_, _)
BitXor(a, b) ==
  IF a = 0 THEN b
  ELSE IF b = 0 THEN a
  ELSE (((a % 2) + (b % 2)) % 2) + 2 * BitXor(a \div 2, b \div 2)

RECURSIVE BitAnd(_, _)
BitAnd(a, b) ==
  IF a = 0 \/ b = 0 THEN 0
  ELSE ((a % 2) * (b % 2)) + 2 * BitAnd(a \div 2, b \div 2)

(* ------------------------- checksum engine ----------------------------- *)
\* faulty variant: the table is built from the polynomial 0x8005
CrcShift8005(crc) ==
  IF BitAnd(crc, 32768) # 0 THEN BitXor(crc * 2, 32773) ELSE crc * 2

\* one round of the table initialisation loop (j loop body)
CrcShift(crc) ==
  IF BitAnd(crc, 32768) # 0 THEN BitXor(crc * 2, 4129) ELSE crc * 2

RECURSIVE CrcRounds(_, _)
CrcRounds(crc, j) == IF j = 0 THEN crc ELSE CrcRounds(CrcShift(crc), j - 1)

CRC_TABLE == [i \in 0..255 |-> BitAnd(CrcRounds(i * 256, 8), 65535)]

RECURSIVE CrcLoop(_, _, _, _)
CrcLoop(data, i, end, crc) ==
  IF i >= end THEN crc
  ELSE CrcLoop(data, i + 1, end,
         BitAnd(BitXor(crc * 256,
                       CRC_TABLE[BitAnd(BitXor(crc \div 256, data[i + 1]), 255)]),
                65535))

\* data is a TLA+ sequence (1-based); start is the 0-based JavaScript index
calcCrc16(data, start, length) == CrcLoop(data, start, start + length, 65535)

(* ----------------------- command packet builder ------------------------ *)
\* the packet _buildMcuCommand returns when the counter is msgCounter before
\* the call; the caller stores NextMsgCounter(msgCounter) into the counter
\* faulty variant: the counter is incremented without the 16-bit mask
NextMsgCounterNoMask(c) == c + 1

NextMsgCounter(c) == BitAnd(c + 1, 65535)

\* faulty variant: the checksum is stored low byte first
buildMcuCommandCrcLowFirst(cmdId, dataBytes, counter) ==
  LET dataLen == Len(dataBytes)
      packetLen == 18 + dataLen + 1
      payloadLen == 8 + 2 + 2 + dataLen + 1
      cnt == NextMsgCounter(counter)
      body == [k \in 1..packetLen |->
                 IF k = 1 THEN 255
                 ELSE IF k = 2 THEN 254
                 ELSE IF k = 5 THEN BitAnd(payloadLen, 255)
                 ELSE IF k = 6 THEN BitAnd(payloadLen \div 256, 255)
                 ELSE IF k = 15 THEN BitAnd(cmdId, 255)
                 ELSE IF k = 16 THEN BitAnd(cmdId \div 256, 255)
                 ELSE IF k = 17 THEN BitAnd(cnt, 255)
                 ELSE IF k = 18 THEN BitAnd(cnt \div 256, 255)
                 ELSE IF k = packetLen THEN 3
                 ELSE IF k > 18 THEN dataBytes[k - 18]
                 ELSE 0]
      crc == calcCrc16(body, 4, packetLen - 4)
  IN [body EXCEPT ![3] = BitAnd(crc, 255), ![4] = BitAnd(crc \div 256, 255)]

buildMcuCommand(cmdId, dataBytes, counter) ==
  LET dataLen == Len(dataBytes)
      packetLen == 18 + dataLen + 1
      payloadLen == 8 + 2 + 2 + dataLen + 1
      cnt == NextMsgCounter(counter)
      body == [k \in 1..packetLen |->
                 IF k = 1 THEN 255
                 ELSE IF k = 2 THEN 254
                 ELSE IF k = 5 THEN BitAnd(payloadLen, 255)
                 ELSE IF k = 6 THEN BitAnd(payloadLen \div 256, 255)
                 ELSE IF k = 15 THEN BitAnd(cmdId, 255)
                 ELSE IF k = 16 THEN BitAnd(cmdId \div 256, 255)
                 ELSE IF k = 17 THEN BitAnd(cnt, 255)
                 ELSE IF k = 18 THEN BitAnd(cnt \div 256, 255)
                 ELSE IF k = packetLen THEN 3
                 ELSE IF k > 18 THEN dataBytes[k - 18]
                 ELSE 0]
      crc == calcCrc16(body, 4, packetLen - 4)
  IN [body EXCEPT ![3] = BitAnd(crc \div 256, 255), ![4] = BitAnd(crc, 255)]

\* the three shorthand sequences of _startIMU
simpleCommands == << <<255, 254, 21, 1>>, <<21, 1>>, <<1>> >>

(* ----------------------- JavaScript numbers ---------------------------- *)
\* A finite number is the integer nearest to zero of its value times SCALE
\* (exact for every value the reports below carry); NaN and the infinities
\* are the values NaN, PosInf and NegInf.
SCALE == 1024
NaN == 2000000000
PosInf == NaN - 1
NegInf == 0 - PosInf
IsNaN(x) == x = NaN
IsFinite(x) == x # NaN /\ x # PosInf /\ x # NegInf

Neg(x) == IF x = NaN THEN NaN
          ELSE IF x = PosInf THEN NegInf
          ELSE IF x = NegInf THEN PosInf
          ELSE 0 - x
Abs(x) == IF x = NaN THEN NaN
          ELSE IF x = PosInf \/ x = NegInf THEN PosInf
          ELSE IF x < 0 THEN 0 - x ELSE x
\* a > b of JavaScript (false when either side is NaN)
Gt(a, b) == a # NaN /\ b # NaN /\ a > b
Lt(a, b) == a # NaN /\ b # NaN /\ a < b
\* products and sums of finite numbers; NaN is contagious
Mul(a, b) == IF a = NaN \/ b = NaN THEN NaN
             ELSE IF (a < 0) = (b < 0) THEN (Abs(a) * Abs(b)) \div SCALE
             ELSE 0 - ((Abs(a) * Abs(b)) \div SCALE)
Add(a, b) == IF a = NaN \/ b = NaN THEN NaN ELSE a + b
Sub(a, b) == IF a = NaN \/ b = NaN THEN NaN ELSE a - b

\* DataView.getFloat32 on four bytes, b0 the most significant: IEEE 754
\* single precision. Magnitudes of 2^20 and more are outside the inputs of
\* the model and read as infinite; magnitudes below 1/SCALE read as zero.
Float32(b0, b1, b2, b3) ==
  LET sign == b0 \div 128
      e == ((b0 % 128) * 2) + (b1 \div 128)
      m == ((b1 % 128) * 65536) + (b2 * 256) + b3
      mag == IF e = 0 THEN 0
             ELSE IF e >= 140 THEN (8388608 + m) * (2 ^ (e - 140))
             ELSE IF e >= 110 THEN (8388608 + m) \div (2 ^ (140 - e))
             ELSE 0
  IN IF e = 255 THEN (IF m # 0 THEN NaN ELSE IF sign = 1 THEN NegInf ELSE PosInf)
     ELSE IF e > 146 THEN (IF sign = 1 THEN NegInf ELSE PosInf)
     ELSE IF sign = 1 THEN 0 - mag ELSE mag

\* view.getFloat32(0, littleEndian) on a 4-byte view
getFloat32(view, littleEndian) ==
  IF littleEndian THEN Float32(view[4], view[3], view[2], view[1])
  ELSE Float32(view[1], view[2], view[3], view[4])

\* bytes[k] of a Uint8Array held as a sequence (k 0-based)
ByteAt(bytes, k) == bytes[k + 1]

\* _floatFromIMUSwapped: the four bytes reversed into the view, read
\* little-endian
floatFromIMUSwapped(bytes, offset) ==
  getFloat32(<<ByteAt(bytes, offset + 3), ByteAt(bytes, offset + 2),
               ByteAt(bytes, offset + 1), ByteAt(bytes, offset)>>, TRUE)

\* _floatFromIMU: the four bytes in order, read big-endian
floatFromIMU(bytes, offset) ==
  getFloat32(<<ByteAt(bytes, offset), ByteAt(bytes, offset + 1),
               ByteAt(bytes, offset + 2), ByteAt(bytes, offset + 3)>>, FALSE)

(* ------------------------- orientation math ---------------------------- *)
\* Math.cos / Math.sin of half an angle given in degrees, in real
\* arithmetic; the model's angles are whole multiples of 180 degrees, whose
\* half angles are multiples of a right angle
TrigDomain(deg) == IsFinite(deg) /\ deg % (180 * SCALE) = 0
CosHalf(deg) ==
  IF ~IsFinite(deg) THEN NaN
  ELSE LET q == (deg \div (180 * SCALE)) % 4
       IN IF q = 0 THEN SCALE ELSE IF q = 2 THEN 0 - SCALE ELSE 0
SinHalf(deg) ==
  IF ~IsFinite(deg) THEN NaN
  ELSE LET q == (deg \div (180 * SCALE)) % 4
       IN IF q = 1 THEN SCALE ELSE IF q = 3 THEN 0 - SCALE ELSE 0

Mul3(a, b, c) == Mul(Mul(a, b), c)

eulerToQuaternion(roll, pitch, yaw) ==
  LET cy == CosHalf(yaw)   sy == SinHalf(yaw)
      cp == CosHalf(pitch) sp == SinHalf(pitch)
      cr == CosHalf(roll)  sr == SinHalf(roll)
  IN [w |-> Add(Mul3(cr, cp, cy), Mul3(sr, sp, sy)),
      x |-> Sub(Mul3(sr, cp, cy), Mul3(cr, sp, sy)),
      y |-> Add(Mul3(cr, sp, cy), Mul3(sr, cp, sy)),
      z |-> Sub(Mul3(cr, cp, sy), Mul3(sr, sp, cy))]

multiplyQuaternions(a, b) ==
  [w |-> Sub(Sub(Sub(Mul(a.w, b.w), Mul(a.x, b.x)), Mul(a.y, b.y)), Mul(a.z, b.z)),
   x |-> Sub(Add(Add(Mul(a.w, b.x), Mul(a.x, b.w)), Mul(a.y, b.z)), Mul(a.z, b.y)),
   y |-> Add(Add(Sub(Mul(a.w, b.y), Mul(a.x, b.z)), Mul(a.y, b.w)), Mul(a.z, b.x)),
   z |-> Add(Sub(Add(Mul(a.w, b.z), Mul(a.x, b.y)), Mul(a.y, b.x)), Mul(a.z, b.w))]

conjugateQuaternion(q) == [w |-> q.w, x |-> Neg(q.x), y |-> Neg(q.y), z |-> Neg(q.z)]

IdentityQuaternion == [w |-> SCALE, x |-> 0, y |-> 0, z |-> 0]

(* ------------------------------ state ---------------------------------- *)
VARIABLES
  hidSupported,   \* 'hid' in navigator
  authorized,     \* interfaces navigator.hid.getDevices() returns
  opened,         \* device.opened of each interface
  listeners,      \* 'inputreport' listeners of each interface, in order added
  device,         \* this.device
  allDevices,     \* this._allDevices
  connected,      \* this.connected
  msgCounter,     \* this._msgCounter
  cpc,            \* position of the running connect / checkExistingConnection
  cKind,          \* "connect" or "check"
  cDevs,          \* its vitureDevices array
  ci,             \* its loop index (1-based)
  si, sj,         \* _startIMU: device index (1-based) and command index 0..3
  imuEnableCmd,   \* _startIMU: the built command packet
  cResult,        \* how the call ended
  openLog,        \* device.open() attempts of the running call
  sendLog,        \* device.sendReport() attempts of the running call
  dpc,            \* position of the running disconnect
  dDevs,          \* the array its for-of loop iterates
  di,             \* its loop index (1-based)
  closeLog,       \* device.close() attempts of the running disconnect
  calls,          \* number of calls made so far
  faults,         \* number of injected failures so far
  quaternion,         \* this.quaternion
  calibrationOffset,  \* this.calibrationOffset
  rotation,           \* this.rotation
  callbacks,          \* this.callbacks (a Set: insertion order, no duplicates)
  callbacksRot,       \* this.callbacksRot
  reportCount,        \* this._reportCount
  reportCounts,       \* this._reportCounts, by device index
  tokens,             \* the unsubscribe functions handed out, by what they delete
  subs,               \* number of subscribe calls made so far
  issued,             \* the subscribe calls in order: channel, callback, and
                      \* whether the function the call returned was called
  lastReport,         \* bytes and device index of the report handled last
  lastParser,         \* the parser _handleInputReport ran for it ("none": none)
  lastThrew,          \* whether _handleInputReport threw on it
  before,             \* quaternion, rotation and offset it was handled with,
                      \* and the sample accepted last before it
  lastAccepted,       \* bytes of the report accepted last (<<>>: none yet)
  notified,           \* the callback invocations it made, in order
  timers,             \* pending diagnostic timers of _startIMU, oldest first
  expired,            \* what the diagnostic timer that expired last found
  dispatch,           \* the 'inputreport' event an interface is dispatching
  delivered,          \* number of 'inputreport' events dispatched so far
  crcCall,            \* arguments and result of the last direct calcCrc16 call
  cmdCall,            \* arguments and result of the last direct
                      \* _buildMcuCommand call
  received,           \* the 'send-tracking-data' messages the main process got
  udpSent,            \* the datagrams it handed to udp.send, in order
  frameCallbacks,     \* VitureXRSession._frameCallbacks (0: null)
  ended,              \* VitureXRSession.ended
  registered,         \* the requestAnimationFrame calls so far: the handle
                      \* returned, the frames run before, whether the handle
                      \* was cancelled, how often the callback was invoked
  frames,             \* number of frames the loop has run
  selectedDevice,     \* selectedDevice of the main process
  selectedFor,        \* the request the user made that selection for
  requests            \* the select-hid-device events so far: device list,
                      \* position of the handler, what the user selected
                      \* for it, what its callback was invoked with

sessionVars == <<device, allDevices, connected, msgCounter>>
hostVars == <<hidSupported, authorized, opened, listeners>>
connVars == <<cpc, cKind, cDevs, ci, si, sj, imuEnableCmd, cResult, openLog, sendLog>>
discVars == <<dpc, dDevs, di, closeLog>>
timerVars == <<timers, expired>>
commandVars == <<crcCall, cmdCall>>
deliveryVars == <<dispatch, delivered>>
forwarderVars == <<received, udpSent>>
xrVars == <<frameCallbacks, ended, registered, frames>>
selectVars == <<selectedDevice, selectedFor, requests>>
shellVars == <<xrVars, selectVars>>
sessionSide == <<sessionVars, hostVars, connVars, discVars, calls, faults,
                 timerVars, commandVars, forwarderVars, shellVars>>
orientationVars == <<quaternion, calibrationOffset, rotation>>
subscriberVars == <<callbacks, callbacksRot, tokens, subs, issued>>
reportVars == <<orientationVars, subscriberVars, reportCount, reportCounts,
                lastReport, lastParser, lastThrew, before, lastAccepted,
                notified>>
\* what connect, checkExistingConnection and disconnect never touch
offSession == <<reportVars, deliveryVars, expired, commandVars, forwarderVars,
                shellVars>>
vars == <<sessionSide, reportVars, deliveryVars>>

NullDevices == [null |-> TRUE, devs |-> <<>>]


(* --------------------------- helpers ------------------------------------ *)
Range(s) == {s[k] : k \in 1..Len(s)}

\* d.vendorId === VENDOR_ID && ALL_PRODUCT_IDS.includes(d.productId)
Matches(d) ==
  devKind[d].vendorId = VENDOR_ID /\ devKind[d].productId \in ALL_PRODUCT_IDS

\* allAuthorized.filter(...): the authorized matching interfaces, in
\* enumeration order
RECURSIVE FilterDevices(_, _)
FilterDevices(auth, n) ==
  IF n = 0 THEN <<>>
  ELSE IF n \in auth /\ Matches(n) THEN Append(FilterDevices(auth, n - 1), n)
  ELSE FilterDevices(auth, n - 1)

\* _getDeviceInfo: null without a primary interface, else its identity and
\* model name (first matching group wins)
NullInfo == [model |-> "null", vendorId |-> 0, productId |-> 0]

getDeviceInfo(dev) ==
  IF dev = NullDev \/ dev = UndefDev THEN NullInfo
  ELSE LET pid == devKind[dev].productId IN
       [model |-> IF pid \in PRODUCT_IDS_ONE THEN "Viture One"
                  ELSE IF pid \in PRODUCT_IDS_ONE_LITE THEN "Viture One Lite"
                  ELSE IF pid \in PRODUCT_IDS_PRO THEN "Viture Pro"
                  ELSE IF pid \in PRODUCT_IDS_LUMA_PRO THEN "Viture Luma Pro"
                  ELSE IF pid \in PRODUCT_IDS_LUMA THEN "Viture Luma"
                  ELSE "Unknown",
        vendorId |-> devKind[dev].vendorId,
        productId |-> pid]

\* device.addEventListener('inputreport', e => this._handleInputReport(e, i))
addEventListener(lst, d, i, call) ==
  [lst EXCEPT ![d] = Append(@, [index |-> i - 1, call |-> call])]

\* faulty variant: interfaces that are already open are passed over without a listener
RECURSIVE OpenScanNoListen(_, _, _, _, _)
OpenScanNoListen(devs, i, op, lst, call) ==
  IF i > Len(devs) THEN [i |-> i, lst |-> lst]
  ELSE IF op[devs[i]] THEN OpenScanNoListen(devs, i + 1, op, lst, call)
  ELSE [i |-> i, lst |-> lst]

\* the open loop from index i up to its next await: interfaces already open
\* only get the listener; stops at the first interface that needs open()
RECURSIVE OpenScan(_, _, _, _, _)
OpenScan(devs, i, op, lst, call) ==
  IF i > Len(devs) THEN [i |-> i, lst |-> lst]
  ELSE IF op[devs[i]]
       THEN OpenScan(devs, i + 1, op, addEventListener(lst, devs[i], i, call), call)
       ELSE [i |-> i, lst |-> lst]

\* faulty variant: a failed open leaves the loop
AfterOpenAbort(i, ok) == IF ok THEN i + 1 ELSE NumDev + 1

\* where the open loop resumes after device.open() on index i settled
AfterOpen(i, ok) == i + 1

\* _startIMU send loop: first index >= i whose interface is open
RECURSIVE NextOpened(_, _, _)
NextOpened(devs, i, op) ==
  IF i > Len(devs) THEN i
  ELSE IF op[devs[i]] THEN i
  ELSE NextOpened(devs, i + 1, op)

\* the bytes of command j of the handshake
Command(j, pkt) == IF j = 0 THEN pkt ELSE simpleCommands[j]

\* faulty variant: a failed close leaves the loop
AfterCloseAbort(i, ok) == IF ok THEN i + 1 ELSE NumDev + 1

\* where the close loop resumes after device.close() on index i settled
AfterClose(i, ok) == i + 1

NoResult == [status |-> "none", error |-> "", info |-> NullInfo]
Threw(msg) == [status |-> "threw", error |-> msg, info |-> NullInfo]
Returned(st, info) == [status |-> st, error |-> "", info |-> info]

Idle(pc) == pc \in {"idle", "done"}

\* no timer has expired, no event is being dispatched, no direct call was made
NoExpiry == [call |-> 0, warned |-> FALSE, arrived |-> 0]
NoDispatch == [dev |-> NullDev, bytes |-> <<>>, queue |-> <<>>, ran |-> 0]
NoCrcCall == [data |-> <<>>, start |-> 0, length |-> 0, crc |-> 0 - 1]
NoCmdCall == [cmdId |-> 0 - 1, dataBytes |-> <<>>, counter |-> 0, packet |-> <<>>,
              n |-> 0]

\* let selectedDevice = null
NullSelection == "null"

\* setTimeout(..., 3000) at the end of _startIMU: the timer remembers the call
\* it belongs to and how many events had been dispatched when it was set
SetTimeout(tm) == Append(tm, [call |-> calls, base |-> delivered])

(* ------------------------------ Init ----------------------------------- *)
\* the engine after its constructor
InitEngine ==
  /\ device = NullDev
  /\ allDevices = NullDevices
  /\ connected = FALSE
  /\ msgCounter = 0
  /\ quaternion = IdentityQuaternion
  /\ calibrationOffset = IdentityQuaternion
  /\ rotation = [yaw |-> 0, pitch |-> 0, roll |-> 0]
  /\ callbacks = <<>>
  /\ callbacksRot = <<>>
  /\ reportCount = 0
  /\ reportCounts = [i \in DevIdx |-> 0]
  /\ tokens = {} /\ subs = 0 /\ issued = <<>>
  /\ lastReport = [bytes |-> <<>>, index |-> 0 - 1]
  /\ lastParser = "none" /\ lastThrew = FALSE /\ notified = <<>>
  /\ before = [quaternion |-> IdentityQuaternion,
               calibrationOffset |-> IdentityQuaternion,
               rotation |-> [yaw |-> 0, pitch |-> 0, roll |-> 0],
               sample |-> <<>>]
  /\ lastAccepted = <<>>
  /\ timers = <<>> /\ expired = NoExpiry
  /\ dispatch = NoDispatch /\ delivered = 0
  /\ crcCall = NoCrcCall /\ cmdCall = NoCmdCall
  /\ received = <<>> /\ udpSent = <<>>
  /\ frameCallbacks = <<>> /\ ended = FALSE /\ registered = <<>> /\ frames = 0
  /\ selectedDevice = NullSelection /\ selectedFor = 0 /\ requests = <<>>

Init ==
  /\ InitEngine
  /\ hidSupported \in BOOLEAN
  /\ authorized \in SUBSET Devs
  /\ opened = [d \in Devs |-> FALSE]
  /\ listeners = [d \in Devs |-> <<>>]
  /\ cpc = "idle" /\ cKind = "none" /\ cDevs = <<>> /\ ci = 0
  /\ si = 0 /\ sj = 0 /\ imuEnableCmd = <<>>
  /\ cResult = NoResult /\ openLog = <<>> /\ sendLog = <<>>
  /\ dpc = "idle" /\ dDevs = <<>> /\ di = 0 /\ closeLog = <<>>
  /\ calls = 0 /\ faults = 0

(* ------------------- connect / checkExistingConnection ----------------- *)
\* _startIMU from its entry to its first await (or to its return): builds
\* the command packet, then issues the first sendReport to the first open
\* interface; with no open interface the send loop is over at once and the
\* diagnostic timer is set. (The console output of the driver is not part of
\* the state.)
StartIMU(devs, op) ==
  IF Len(devs) = 0
  THEN /\ cpc' = "post"
       /\ UNCHANGED <<msgCounter, imuEnableCmd, si, sj, timers>>
  ELSE /\ msgCounter' = NextMsgCounter(msgCounter)
       /\ imuEnableCmd' = buildMcuCommand(21, <<1>>, msgCounter)
       /\ LET n == NextOpened(devs, 1, op) IN
          /\ si' = n /\ sj' = 0
          /\ cpc' = IF n <= Len(devs) THEN "send" ELSE "post"
          /\ timers' = IF n <= Len(devs) THEN timers ELSE SetTimeout(timers)

\* the open loop of connect / checkExistingConnection resumed at index i,
\* up to the next await; past the loop the session fields are assigned and
\* _startIMU is entered
ResumeOpenLoop(devs, i, op, lst) ==
  LET s == OpenScan(devs, i, op, lst, calls) IN
  /\ listeners' = s.lst
  /\ opened' = op
  /\ ci' = s.i
  /\ IF s.i <= Len(devs)
     THEN /\ cpc' = "open"
          /\ UNCHANGED <<sessionVars, imuEnableCmd, si, sj, timers>>
     ELSE /\ device' = IF Len(devs) = 0 THEN UndefDev ELSE devs[1]
          /\ allDevices' = [null |-> FALSE, devs |-> devs]
          /\ connected' = TRUE
          /\ StartIMU(devs, op)

BeginCall(kind) ==
  /\ Idle(cpc) /\ Idle(dpc)
  /\ calls < MaxCalls
  /\ calls' = calls + 1
  /\ cKind' = kind
  /\ cDevs' = <<>> /\ ci' = 0 /\ si' = 0 /\ sj' = 0 /\ imuEnableCmd' = <<>>
  /\ openLog' = <<>> /\ sendLog' = <<>>
  /\ dpc' = "idle" /\ dDevs' = <<>> /\ di' = 0 /\ closeLog' = <<>>
  /\ UNCHANGED <<sessionVars, hostVars, faults, timers>>

\* connect() called without WebHID: throws before anything else
ConnectUnsupported ==
  /\ ~hidSupported
  /\ BeginCall("connect")
  /\ cpc' = "done"
  /\ cResult' = Threw("WebHID not supported")
  /\ UNCHANGED offSession

\* faulty variant: connect() drops the previous session before asking for a device
ConnectCallClearsFirst ==
  /\ hidSupported
  /\ Idle(cpc) /\ Idle(dpc)
  /\ calls < MaxCalls
  /\ calls' = calls + 1
  /\ cKind' = "connect"
  /\ cDevs' = <<>> /\ ci' = 0 /\ si' = 0 /\ sj' = 0 /\ imuEnableCmd' = <<>>
  /\ openLog' = <<>> /\ sendLog' = <<>>
  /\ dpc' = "idle" /\ dDevs' = <<>> /\ di' = 0 /\ closeLog' = <<>>
  /\ device' = NullDev /\ allDevices' = NullDevices /\ connected' = FALSE
  /\ UNCHANGED <<msgCounter, hostVars, faults, timers>>
  /\ cpc' = "request"
  /\ cResult' = NoResult
  /\ UNCHANGED offSession

\* connect() up to await navigator.hid.requestDevice
ConnectCall ==
  /\ hidSupported
  /\ BeginCall("connect")
  /\ cpc' = "request"
  /\ cResult' = NoResult
  /\ UNCHANGED offSession

\* requestDevice resolved with an empty selection: connect throws
ConnectNoneSelected ==
  /\ cpc = "request"
  /\ cpc' = "done"
  /\ cResult' = Threw("No Viture device selected")
  /\ UNCHANGED <<sessionVars, hostVars, discVars, calls, faults, timers,
                 cKind, cDevs, ci, si, sj, imuEnableCmd, openLog, sendLog>>
  /\ UNCHANGED offSession

\* requestDevice resolved with the interfaces the user granted (they match
\* the filters); connect goes on to await navigator.hid.getDevices
ConnectSelected ==
  /\ cpc = "request"
  /\ \E S \in (SUBSET {d \in Devs : Matches(d)}) \ {{}} :
       authorized' = authorized \cup S
  /\ cpc' = "getDevices"
  /\ UNCHANGED <<sessionVars, hidSupported, opened, listeners,
                 discVars, calls, faults, timers,
                 cKind, cDevs, ci, si, sj, imuEnableCmd, cResult, openLog, sendLog>>
  /\ UNCHANGED offSession

\* getDevices resolved: filter, then run the open loop to its first await
ConnectGetDevices ==
  /\ cpc = "getDevices"
  /\ cDevs' = FilterDevices(authorized, NumDev)
  /\ ResumeOpenLoop(cDevs', 1, opened, listeners)
  /\ UNCHANGED <<hidSupported, authorized, discVars, calls, faults,
                 cKind, cResult, openLog, sendLog>>
  /\ UNCHANGED offSession

\* checkExistingConnection() without WebHID: returns false
CheckUnsupported ==
  /\ ~hidSupported
  /\ BeginCall("check")
  /\ cpc' = "done"
  /\ cResult' = Returned("false", NullInfo)
  /\ UNCHANGED offSession

\* checkExistingConnection() up to await navigator.hid.getDevices
CheckCall ==
  /\ hidSupported
  /\ BeginCall("check")
  /\ cpc' = "checkGet"
  /\ cResult' = NoResult
  /\ UNCHANGED offSession

\* getDevices resolved without any matching interface: returns false
CheckNoDevices ==
  /\ cpc = "checkGet"
  /\ FilterDevices(authorized, NumDev) = <<>>
  /\ cpc' = "done"
  /\ cResult' = Returned("false", NullInfo)
  /\ UNCHANGED <<sessionVars, hostVars, discVars, calls, faults, timers,
                 cKind, cDevs, ci, si, sj, imuEnableCmd, openLog, sendLog>>
  /\ UNCHANGED offSession

\* getDevices resolved with matching interfaces: run the open loop
CheckGetDevices ==
  /\ cpc = "checkGet"
  /\ FilterDevices(authorized, NumDev) # <<>>
  /\ cDevs' = FilterDevices(authorized, NumDev)
  /\ ResumeOpenLoop(cDevs', 1, opened, listeners)
  /\ UNCHANGED <<hidSupported, authorized, discVars, calls, faults,
                 cKind, cResult, openLog, sendLog>>
  /\ UNCHANGED offSession

\* await device.open() resolved: the listener is added and the loop goes on
OpenSucceeds ==
  /\ cpc = "open"
  /\ LET d == cDevs[ci] IN
     /\ openLog' = Append(openLog, [dev |-> d, index |-> ci, ok |-> TRUE])
     /\ ResumeOpenLoop(cDevs, AfterOpen(ci, TRUE),
                       [opened EXCEPT ![d] = TRUE],
                       addEventListener(listeners, d, ci, calls))
  /\ UNCHANGED <<hidSupported, authorized, discVars, calls, faults,
                 cKind, cDevs, cResult, sendLog>>
  /\ UNCHANGED offSession

\* await device.open() rejected: caught and logged, the loop goes on
OpenFails ==
  /\ cpc = "open"
  /\ faults < MaxFaults
  /\ faults' = faults + 1
  /\ LET d == cDevs[ci] IN
     /\ openLog' = Append(openLog, [dev |-> d, index |-> ci, ok |-> FALSE])
     /\ ResumeOpenLoop(cDevs, AfterOpen(ci, FALSE), opened, listeners)
  /\ UNCHANGED <<hidSupported, authorized, discVars, calls,
                 cKind, cDevs, cResult, sendLog>>
  /\ UNCHANGED offSession

\* faulty variant: one failed send gives up on the rest of that interface's sends
AfterSendGiveUp(devs, i, j, op, ok) ==
  IF j < 3 /\ ok THEN [i |-> i, j |-> j + 1]
  ELSE [i |-> NextOpened(devs, i + 1, op), j |-> 0]

\* after sendReport number j to index i settled: the next send of the
\* handshake, or the end of the loop
AfterSend(devs, i, j, op, ok) ==
  IF j < 3 THEN [i |-> i, j |-> j + 1]
  ELSE [i |-> NextOpened(devs, i + 1, op), j |-> 0]

SendSettled(ok) ==
  LET d == cDevs[si]
      nx == AfterSend(cDevs, si, sj, opened, ok)
  IN
  /\ sendLog' = Append(sendLog, [dev |-> d, cmd |-> sj,
                                 data |-> Command(sj, imuEnableCmd), ok |-> ok])
  /\ si' = nx.i /\ sj' = nx.j
  /\ cpc' = IF nx.i <= Len(cDevs) THEN "send" ELSE "post"
  /\ timers' = IF nx.i <= Len(cDevs) THEN timers ELSE SetTimeout(timers)
  /\ UNCHANGED <<sessionVars, hidSupported, authorized, opened, listeners,
                 discVars, calls, cKind, cDevs, ci, imuEnableCmd, cResult, openLog>>

\* await device.sendReport resolved
SendSucceeds ==
  /\ cpc = "send"
  /\ opened[cDevs[si]]
  /\ SendSettled(TRUE)
  /\ UNCHANGED faults
  /\ UNCHANGED offSession

\* await device.sendReport rejected (always so on a closed interface):
\* caught, the handshake goes on
SendFails ==
  /\ cpc = "send"
  /\ IF opened[cDevs[si]]
     THEN faults < MaxFaults /\ faults' = faults + 1
     ELSE UNCHANGED faults
  /\ SendSettled(FALSE)
  /\ UNCHANGED offSession

\* await this._startIMU() resumed: post the message, return
ConnectReturn ==
  /\ cpc = "post"
  /\ cpc' = "done"
  /\ cResult' = IF cKind = "connect"
                THEN Returned("ok", getDeviceInfo(device))
                ELSE Returned("true", NullInfo)
  /\ UNCHANGED <<sessionVars, hostVars, discVars, calls, faults, timers,
                 cKind, cDevs, ci, si, sj, imuEnableCmd, openLog, sendLog>>
  /\ UNCHANGED offSession

(* ----------------------------- disconnect ------------------------------ *)
\* the tail of disconnect: session state cleared, message posted
ClearSession ==
  /\ device' = NullDev
  /\ allDevices' = NullDevices
  /\ connected' = FALSE
  /\ dpc' = "done"

\* the close loop resumed at index i up to its next await
ResumeCloseLoop(devs, i, op) ==
  LET n == NextOpened(devs, i, op) IN
  /\ di' = n
  /\ opened' = op
  /\ IF n <= Len(devs)
     THEN dpc' = "close" /\ UNCHANGED <<device, allDevices, connected>>
     ELSE ClearSession

\* disconnect() up to its first await (or to its end)
DisconnectCall ==
  /\ Idle(cpc) /\ Idle(dpc)
  /\ calls < MaxCalls
  /\ calls' = calls + 1
  /\ closeLog' = <<>>
  /\ dDevs' = allDevices.devs
  /\ ResumeCloseLoop(dDevs', 1, opened)
  /\ cpc' = "idle" /\ cKind' = "none" /\ cDevs' = <<>> /\ ci' = 0
  /\ si' = 0 /\ sj' = 0 /\ imuEnableCmd' = <<>>
  /\ cResult' = NoResult /\ openLog' = <<>> /\ sendLog' = <<>>
  /\ UNCHANGED <<msgCounter, hidSupported, authorized, listeners, faults, timers>>
  /\ UNCHANGED offSession

\* await device.close() resolved
CloseSucceeds ==
  /\ dpc = "close"
  /\ LET d == dDevs[di] IN
     /\ closeLog' = Append(closeLog, [dev |-> d, ok |-> TRUE])
     /\ ResumeCloseLoop(dDevs, AfterClose(di, TRUE), [opened EXCEPT ![d] = FALSE])
  /\ UNCHANGED <<msgCounter, hidSupported, authorized, listeners,
                 connVars, dDevs, calls, faults, timers>>
  /\ UNCHANGED offSession

\* await device.close() rejected: caught and logged, the loop goes on
CloseFails ==
  /\ dpc = "close"
  /\ faults < MaxFaults
  /\ faults' = faults + 1
  /\ LET d == dDevs[di] IN
     /\ closeLog' = Append(closeLog, [dev |-> d, ok |-> FALSE])
     /\ ResumeCloseLoop(dDevs, AfterClose(di, FALSE), opened)
  /\ UNCHANGED <<msgCounter, hidSupported, authorized, listeners,
                 connVars, dDevs, calls, timers>>
  /\ UNCHANGED offSession

(* ------------------------- session specification ----------------------- *)
NextSession ==
  \/ ConnectUnsupported \/ ConnectCall \/ ConnectNoneSelected \/ ConnectSelected
  \/ ConnectGetDevices
  \/ CheckUnsupported \/ CheckCall \/ CheckNoDevices \/ CheckGetDevices
  \/ OpenSucceeds \/ OpenFails \/ SendSucceeds \/ SendFails \/ ConnectReturn
  \/ DisconnectCall \/ CloseSucceeds \/ CloseFails

SpecSession == Init /\ [][NextSession]_vars

(* ------------------------- input reports ------------------------------- *)
\* single-precision bit patterns, most significant byte first
F_0 == <<0, 0, 0, 0>>            \* 0.0
F_1 == <<63, 128, 0, 0>>         \* 1.0
F_m1 == <<191, 128, 0, 0>>       \* -1.0
F_half == <<63, 0, 0, 0>>        \* 0.5
F_049 == <<62, 250, 225, 72>>    \* 0.49 (float32 0.49000000954)
F_151 == <<63, 193, 71, 174>>    \* 1.51 (float32 1.50999999046)
F_1h == <<63, 192, 0, 0>>        \* 1.5
F_2 == <<64, 0, 0, 0>>           \* 2.0
F_180 == <<67, 52, 0, 0>>        \* 180.0
F_m180 == <<195, 52, 0, 0>>      \* -180.0
F_181 == <<67, 53, 0, 0>>        \* 181.0
F_m181 == <<195, 53, 0, 0>>      \* -181.0
F_NaN == <<127, 192, 0, 0>>      \* NaN
F_Inf == <<127, 128, 0, 0>>      \* Infinity

\* the three floats of an Euler payload
AngleTriples ==
  { <<F_0, F_0, F_0>>, <<F_180, F_0, F_0>>, <<F_0, F_180, F_0>>,
    <<F_m180, F_0, F_180>>,
    <<F_181, F_0, F_0>>, <<F_0, F_m181, F_0>>, <<F_180, F_0, F_181>>,
    <<F_NaN, F_0, F_0>>, <<F_0, F_180, F_NaN>>, <<F_0, F_Inf, F_0>> }

\* the four floats of a quaternion payload
QuatTuples ==
  { <<F_1, F_0, F_0, F_0>>, <<F_0, F_0, F_m1, F_0>>,
    <<F_half, F_0, F_0, F_0>>, <<F_1h, F_0, F_0, F_0>>,
    <<F_half, F_half, F_half, F_half>>,
    <<F_0, F_0, F_0, F_0>>, <<F_2, F_0, F_0, F_0>>, <<F_1, F_NaN, F_0, F_0>>,
    <<F_049, F_0, F_0, F_0>>, <<F_0, F_151, F_0, F_0>>, <<F_0, F_0, F_Inf, F_0>> }

ImuHeader == <<255, 252>>
McuHeader == <<255, 254>>

\* n zero bytes with the byte sequences of puts written at their 0-based
\* offsets (a later put overwrites an earlier one; bytes past n are dropped)
MakeReport(n, puts) ==
  [k \in 1..n |->
     LET hits == {i \in 1..Len(puts) :
                    k > puts[i].at /\ k <= puts[i].at + Len(puts[i].data)}
     IN IF hits = {} THEN 0
        ELSE LET i == CHOOSE i \in hits : \A j \in hits : j <= i
             IN puts[i].data[k - puts[i].at]]

VitureReport(n, t, h) ==
  MakeReport(n, << [at |-> 18, data |-> t[1]], [at |-> 22, data |-> t[2]],
                   [at |-> 26, data |-> t[3]], [at |-> 0, data |-> h] >>)

EulerReport(n, t) ==
  MakeReport(n, << [at |-> 0, data |-> t[1]], [at |-> 4, data |-> t[2]],
                   [at |-> 8, data |-> t[3]] >>)

QuatReport(n, t, h) ==
  MakeReport(n, << [at |-> 20, data |-> t[1]], [at |-> 24, data |-> t[2]],
                   [at |-> 28, data |-> t[3]], [at |-> 32, data |-> t[4]],
                   [at |-> 0, data |-> h] >>)

\* reports with the IMU header and an Euler payload at offset 18 (the
\* Viture IMU layout), and such a payload under another header or too short
VitureLayoutReports ==
  { VitureReport(30, t, ImuHeader) : t \in AngleTriples }
  \cup { VitureReport(40, t, ImuHeader) :
           t \in { <<F_180, F_0, F_0>>, <<F_181, F_0, F_0>>, <<F_NaN, F_0, F_0>> } }
  \cup { VitureReport(n, <<F_180, F_0, F_0>>, McuHeader) : n \in {30, 40} }
  \cup { VitureReport(29, <<F_180, F_0, F_0>>, ImuHeader) }

\* reports with an Euler payload at offset 0 (the legacy Euler layout)
EulerLayoutReports ==
  { EulerReport(12, t) : t \in AngleTriples }
  \cup { EulerReport(n, <<F_0, F_180, F_0>>) : n \in {29, 35} }

\* reports with a quaternion payload at offset 20 (the legacy quaternion
\* layout), and such a payload under the IMU header
QuatLayoutReports ==
  { QuatReport(36, t, <<0, 0>>) : t \in QuatTuples }
  \cup { QuatReport(40, t, <<0, 0>>) :
           t \in { <<F_0, F_0, F_m1, F_0>>, <<F_2, F_0, F_0, F_0>> } }
  \cup { QuatReport(n, <<F_0, F_0, F_m1, F_0>>, ImuHeader) : n \in {36, 40} }

\* reports too short for any layout
ShortReports ==
  { MakeReport(n, << [at |-> 0, data |-> h] >>) :
      n \in {0, 1, 2, 11}, h \in {ImuHeader, <<0, 0>>} }

Reports ==
  VitureLayoutReports \cup EulerLayoutReports \cup QuatLayoutReports \cup ShortReports

\* the device indices reports arrive with
ReportIdx == {0, 1}

(* ----------------------- report classifier & parsers ------------------- *)
\* faulty variant: the length test of the legacy quaternion format comes first
ClassifyLengthFirst(bytes) ==
  IF Len(bytes) >= 36 THEN "LegacyQuaternion"
  ELSE IF Len(bytes) >= 30 /\ ByteAt(bytes, 0) = 255 /\ ByteAt(bytes, 1) = 252
  THEN "VitureImu"
  ELSE IF Len(bytes) >= 12 THEN "LegacyEuler"
  ELSE "Unrecognized"

\* the if-chain of _handleInputReport
Classify(bytes) ==
  IF Len(bytes) >= 30 /\ ByteAt(bytes, 0) = 255 /\ ByteAt(bytes, 1) = 252
  THEN "VitureImu"
  ELSE IF Len(bytes) >= 36 THEN "LegacyQuaternion"
  ELSE IF Len(bytes) >= 12 THEN "LegacyEuler"
  ELSE "Unrecognized"

\* the logging of _handleInputReport evaluates bytes[0].toString(16) and
\* bytes[1].toString(16): a TypeError on a report of fewer than two bytes
LogsReport(count) == count <= 10 \/ count % 500 = 0
LoggingThrows(bytes, count) == LogsReport(count) /\ Len(bytes) < 2

\* faulty variant: the conjugate of the offset multiplies from the right
CalibratedRight(off, q) == multiplyQuaternions(q, conjugateQuaternion(off))

\* what a parser leaves behind: the Euler triple, the quaternion, and
\* whether it went on to _notifyCallbacks
Calibrated(off, q) == multiplyQuaternions(conjugateQuaternion(off), q)

AngleInvalid(a) == IsNaN(a) \/ Gt(Abs(a), 180 * SCALE)

parseVitureImuPacket(bytes, rot, quat, off) ==
  LET raw0 == floatFromIMUSwapped(bytes, 18)
      raw1 == floatFromIMUSwapped(bytes, 18 + 4)
      raw2 == floatFromIMUSwapped(bytes, 18 + 8)
      yaw == Neg(raw0)
      roll == Neg(raw1)
      pitch == raw2
      r == [yaw |-> yaw, pitch |-> pitch, roll |-> roll]
  IN IF AngleInvalid(roll) \/ AngleInvalid(pitch) \/ AngleInvalid(yaw)
     THEN [rotation |-> r, quaternion |-> quat, notify |-> FALSE]
     ELSE [rotation |-> r,
           quaternion |-> Calibrated(off, eulerToQuaternion(roll, pitch, yaw)),
           notify |-> TRUE]

\* w*w + x*x + y*y + z*z in units of 1/SCALE^2
SumSquares(w, x, y, z) ==
  IF IsNaN(w) \/ IsNaN(x) \/ IsNaN(y) \/ IsNaN(z) THEN NaN
  ELSE IF ~IsFinite(w) \/ ~IsFinite(x) \/ ~IsFinite(y) \/ ~IsFinite(z) THEN PosInf
  ELSE (w * w) + (x * x) + (y * y) + (z * z)

\* faulty variant: the bounds 0.5 and 1.5 themselves are rejected
MagnitudeInvalidStrict(ss) ==
  \/ IsNaN(ss)
  \/ ss = PosInf
  \/ 4 * ss <= SCALE * SCALE
  \/ 4 * ss >= 9 * SCALE * SCALE

\* mag < 0.5 || mag > 1.5 || isNaN(mag), mag the square root of the sum
MagnitudeInvalid(ss) ==
  \/ IsNaN(ss)
  \/ ss = PosInf
  \/ Lt(4 * ss, SCALE * SCALE)
  \/ Gt(4 * ss, 9 * SCALE * SCALE)

\* faulty variant: the four floats are taken in the order x, y, z, w
parseQuaternionDataXyzw(bytes, rot, quat, off) ==
  LET x == floatFromIMU(bytes, 20)
      y == floatFromIMU(bytes, 20 + 4)
      z == floatFromIMU(bytes, 20 + 8)
      w == floatFromIMU(bytes, 20 + 12)
  IN IF MagnitudeInvalid(SumSquares(w, x, y, z))
     THEN [rotation |-> rot, quaternion |-> quat, notify |-> FALSE]
     ELSE [rotation |-> rot,
           quaternion |-> Calibrated(off, [w |-> w, x |-> x, y |-> y, z |-> z]),
           notify |-> TRUE]

parseQuaternionData(bytes, rot, quat, off) ==
  LET w == floatFromIMU(bytes, 20)
      x == floatFromIMU(bytes, 20 + 4)
      y == floatFromIMU(bytes, 20 + 8)
      z == floatFromIMU(bytes, 20 + 12)
  IN IF MagnitudeInvalid(SumSquares(w, x, y, z))
     THEN [rotation |-> rot, quaternion |-> quat, notify |-> FALSE]
     ELSE [rotation |-> rot,
           quaternion |-> Calibrated(off, [w |-> w, x |-> x, y |-> y, z |-> z]),
           notify |-> TRUE]

parseEulerData(bytes, rot, quat, off) ==
  LET roll == floatFromIMU(bytes, 0)
      pitch == floatFromIMU(bytes, 4)
      yaw == floatFromIMU(bytes, 8)
  IN [rotation |-> rot,
      quaternion |-> Calibrated(off, eulerToQuaternion(roll, pitch, yaw)),
      notify |-> TRUE]

\* faulty variant: the callbacks of a Set are called last subscribed first
notifyCallbacksReversed(q, r, cbs, cbsRot) ==
  [k \in 1..Len(cbs) |->
     [chan |-> "quaternion", cb |-> cbs[Len(cbs) + 1 - k], q |-> q, r |-> r]]
    \o [k \in 1..Len(cbsRot) |->
          [chan |-> "rotation", cb |-> cbsRot[Len(cbsRot) + 1 - k], q |-> q, r |-> r]]
    \o << [chan |-> "postMessage", cb |-> "window", q |-> q, r |-> r] >>

\* _notifyCallbacks: every quaternion callback with q, then every Euler
\* callback with r, each in the order of its Set, then window.postMessage
\* with both
notifyCallbacks(q, r, cbs, cbsRot) ==
  [k \in 1..Len(cbs) |-> [chan |-> "quaternion", cb |-> cbs[k], q |-> q, r |-> r]]
    \o [k \in 1..Len(cbsRot) |-> [chan |-> "rotation", cb |-> cbsRot[k], q |-> q, r |-> r]]
    \o << [chan |-> "postMessage", cb |-> "window", q |-> q, r |-> r] >>

\* subscriber functions that call recenter() when they are invoked
RecenteringCbs == {"cbRecenter"}

\* faulty variant: recenter() inside a callback copies w and x of the new
\* quaternion and leaves y and z of the offset as they were
AfterCallbacksTorn(invocations, off, q) ==
  IF \E k \in 1..Len(invocations) : invocations[k].cb \in RecenteringCbs
  THEN [w |-> q.w, x |-> q.x, y |-> off.y, z |-> off.z]
  ELSE off

\* this.calibrationOffset after the invocations _notifyCallbacks made: a
\* callback that calls recenter() copies this.quaternion, which the parser
\* assigned before it notified
AfterCallbacks(invocations, off, q) ==
  IF \E k \in 1..Len(invocations) : invocations[k].cb \in RecenteringCbs
  THEN q
  ELSE off

\* the angles a report hands to eulerToQuaternion are within the trigonometry
\* the model knows
AnglesModelled(bytes) ==
  LET f == Classify(bytes) IN
  /\ f = "LegacyEuler" =>
       \A o \in {0, 4, 8} :
         LET a == floatFromIMU(bytes, o) IN IsFinite(a) => TrigDomain(a)
  /\ f = "VitureImu" =>
       \A o \in {18, 22, 26} :
         LET a == floatFromIMUSwapped(bytes, o) IN
           (IsFinite(a) /\ ~AngleInvalid(a)) => TrigDomain(a)

\* the number of reports handled so far
RECURSIVE SumCounts(_, _)
SumCounts(counts, S) ==
  IF S = {} THEN 0
  ELSE LET i == CHOOSE i \in S : TRUE IN counts[i] + SumCounts(counts, S \ {i})
Handled == SumCounts(reportCounts, DevIdx)

\* the parser the if-chain of _handleInputReport runs on bytes, applied to
\* the engine's Euler triple, quaternion and calibration offset
ParseReport(bytes, rot, quat, off) ==
  LET format == Classify(bytes)
  IN IF format = "VitureImu" THEN parseVitureImuPacket(bytes, rot, quat, off)
     ELSE IF format = "LegacyQuaternion" THEN parseQuaternionData(bytes, rot, quat, off)
     ELSE IF format = "LegacyEuler" THEN parseEulerData(bytes, rot, quat, off)
     ELSE [rotation |-> rot, quaternion |-> quat, notify |-> FALSE]

\* _handleInputReport(event, deviceIndex) on a report of the given bytes
HandleReport(bytes, deviceIndex) ==
  LET count == reportCounts[deviceIndex] + 1
      format == Classify(bytes)
      res == ParseReport(bytes, rotation, quaternion, calibrationOffset)
  IN
  /\ AnglesModelled(bytes)
  /\ reportCounts' = [reportCounts EXCEPT ![deviceIndex] = count]
  /\ lastReport' = [bytes |-> bytes, index |-> deviceIndex]
  /\ before' = [quaternion |-> quaternion, calibrationOffset |-> calibrationOffset,
                rotation |-> rotation, sample |-> lastAccepted]
  /\ lastAccepted' = IF ~LoggingThrows(bytes, count) /\ res.notify
                     THEN bytes ELSE lastAccepted
  /\ IF LoggingThrows(bytes, count)
     THEN /\ lastThrew' = TRUE
          /\ lastParser' = "none"
          /\ notified' = <<>>
          /\ UNCHANGED <<reportCount, orientationVars>>
     ELSE /\ lastThrew' = FALSE
          /\ reportCount' = reportCount + 1
          /\ lastParser' = IF format = "Unrecognized" THEN "none" ELSE format
          /\ rotation' = res.rotation
          /\ quaternion' = res.quaternion
          /\ notified' = IF res.notify
                         THEN notifyCallbacks(res.quaternion, res.rotation,
                                              callbacks, callbacksRot)
                         ELSE <<>>
          /\ calibrationOffset' =
               IF res.notify
               THEN AfterCallbacks(notifyCallbacks(res.quaternion, res.rotation,
                                                   callbacks, callbacksRot),
                                   calibrationOffset, res.quaternion)
               ELSE calibrationOffset
  /\ UNCHANGED <<sessionSide, subscriberVars>>

\* _handleInputReport(event, deviceIndex) as one step, on any report
HandleInputReport ==
  \E bytes \in Reports, deviceIndex \in ReportIdx :
    /\ Handled < MaxReports
    /\ HandleReport(bytes, deviceIndex)
    /\ UNCHANGED deliveryVars

\* lastReport, lastParser, lastThrew, before and notified describe the report
\* handled in the last step: any other step forgets them (before is then the
\* orientation the step leaves)
NoReport == [bytes |-> <<>>, index |-> 0 - 1]
ForgetReport ==
  /\ lastReport' = NoReport
  /\ lastParser' = "none" /\ lastThrew' = FALSE /\ notified' = <<>>
  /\ UNCHANGED lastAccepted
  /\ before' = [quaternion |-> quaternion', calibrationOffset |-> calibrationOffset',
                rotation |-> rotation', sample |-> lastAccepted]

\* faulty variant: recenter() stores the inverse of the current quaternion
RecenterInverse ==
  /\ calibrationOffset # quaternion
  /\ calibrationOffset' = conjugateQuaternion(quaternion)
  /\ UNCHANGED <<sessionSide, quaternion, rotation, subscriberVars, reportCount,
                 reportCounts, deliveryVars>>
  /\ ForgetReport

\* recenter()
Recenter ==
  /\ calibrationOffset # quaternion
  /\ calibrationOffset' = quaternion
  /\ UNCHANGED <<sessionSide, quaternion, rotation, subscriberVars, reportCount,
                 reportCounts, deliveryVars>>
  /\ ForgetReport

\* Set.add / Set.delete on a Set held as a sequence
SetAdd(set, cb) == IF \E k \in 1..Len(set) : set[k] = cb THEN set ELSE Append(set, cb)
SetDelete(set, cb) == SelectSeq(set, LAMBDA x : x # cb)

\* the subscriber functions the page registers
Cbs == {"cb1"}

\* onOrientationChange(callback): returns the function that deletes it
OnOrientationChangeOf(cb) ==
  /\ subs' = subs + 1
  /\ callbacks' = SetAdd(callbacks, cb)
  /\ tokens' = tokens \cup {[chan |-> "quaternion", cb |-> cb]}
  /\ issued' = Append(issued, [chan |-> "quaternion", cb |-> cb, revoked |-> FALSE])
  /\ UNCHANGED <<sessionSide, orientationVars, callbacksRot, reportCount,
                 reportCounts, deliveryVars>>
  /\ ForgetReport

OnOrientationChange ==
  \E cb \in Cbs :
    /\ subs < MaxSubs
    /\ OnOrientationChangeOf(cb)

\* onOrientationChangeRot(callback): returns the function that deletes it
OnOrientationChangeRotOf(cb) ==
  /\ subs' = subs + 1
  /\ callbacksRot' = SetAdd(callbacksRot, cb)
  /\ tokens' = tokens \cup {[chan |-> "rotation", cb |-> cb]}
  /\ issued' = Append(issued, [chan |-> "rotation", cb |-> cb, revoked |-> FALSE])
  /\ UNCHANGED <<sessionSide, orientationVars, callbacks, reportCount,
                 reportCounts, deliveryVars>>
  /\ ForgetReport

OnOrientationChangeRot ==
  \E cb \in Cbs :
    /\ subs < MaxSubs
    /\ OnOrientationChangeRotOf(cb)

\* faulty variant: the returned function deletes its callback from both Sets
UnsubscribedBoth(t, cbs, cbsRot) ==
  [callbacks |-> SetDelete(cbs, t.cb), callbacksRot |-> SetDelete(cbsRot, t.cb)]

\* the two Sets after the function returned for t was called:
\* () => this.callbacks.delete(callback), or the same on this.callbacksRot
Unsubscribed(t, cbs, cbsRot) ==
  [callbacks |-> IF t.chan = "quaternion" THEN SetDelete(cbs, t.cb) ELSE cbs,
   callbacksRot |-> IF t.chan = "rotation" THEN SetDelete(cbsRot, t.cb) ELSE cbsRot]

\* a returned unsubscribe function is called (on a callback its Set holds:
\* otherwise the call changes nothing)
Unsubscribe ==
  \E n \in 1..Len(issued) :
    LET t == [chan |-> issued[n].chan, cb |-> issued[n].cb]
        after == Unsubscribed(t, callbacks, callbacksRot) IN
    /\ t \in tokens
    /\ IF t.chan = "quaternion"
       THEN \E k \in 1..Len(callbacks) : callbacks[k] = t.cb
       ELSE \E k \in 1..Len(callbacksRot) : callbacksRot[k] = t.cb
    /\ callbacks' = after.callbacks
    /\ callbacksRot' = after.callbacksRot
    /\ issued' = [issued EXCEPT ![n].revoked = TRUE]
    /\ UNCHANGED <<sessionSide, orientationVars, tokens, subs, reportCount,
                   reportCounts, deliveryVars>>
    /\ ForgetReport

(* -------------------------- report specification ----------------------- *)
\* the engine with its report handler driven directly; the host side rests
InitReport ==
  /\ InitEngine
  /\ hidSupported = TRUE
  /\ authorized = {}
  /\ opened = [d \in Devs |-> FALSE]
  /\ listeners = [d \in Devs |-> <<>>]
  /\ cpc = "idle" /\ cKind = "none" /\ cDevs = <<>> /\ ci = 0
  /\ si = 0 /\ sj = 0 /\ imuEnableCmd = <<>>
  /\ cResult = NoResult /\ openLog = <<>> /\ sendLog = <<>>
  /\ dpc = "idle" /\ dDevs = <<>> /\ di = 0 /\ closeLog = <<>>
  /\ calls = 0 /\ faults = 0

NextReport ==
  \/ HandleInputReport
  \/ Recenter
  \/ OnOrientationChange
  \/ OnOrientationChangeRot
  \/ Unsubscribe

SpecReport == InitReport /\ [][NextReport]_vars

(* ------------------------ calibration specification -------------------- *)
\* reports arriving one after another from one device, with recenter() and
\* subscriptions between them; the reports are a few of each format, valid
\* and invalid
CalibrationReports ==
  { VitureReport(30, t, ImuHeader) :
      t \in { <<F_180, F_0, F_0>>, <<F_0, F_180, F_0>>, <<F_181, F_0, F_0>> } }
  \cup { QuatReport(36, t, <<0, 0>>) :
           t \in { <<F_1, F_0, F_0, F_0>>, <<F_0, F_0, F_m1, F_0>>,
                   <<F_half, F_0, F_0, F_0>>, <<F_2, F_0, F_0, F_0>> } }
  \cup { EulerReport(12, <<F_0, F_180, F_0>>) }
  \cup { MakeReport(2, << [at |-> 0, data |-> ImuHeader] >>) }

HandleCalibrationReport ==
  \E bytes \in CalibrationReports :
    /\ Handled < MaxSamples
    /\ HandleReport(bytes, 0)
    /\ UNCHANGED deliveryVars

NextCalibration ==
  \/ HandleCalibrationReport
  \/ Recenter
  \/ OnOrientationChange
  \/ OnOrientationChangeRot
  \/ Unsubscribe

SpecCalibration == InitReport /\ [][NextCalibration]_vars

(* ------------------------- re-entrancy specification ------------------- *)
\* reports from two interfaces handled one after another, recenter() called
\* between them, and a subscriber function that calls recenter() from
\* inside its invocation, subscribed to either channel
ReentrantReports ==
  { VitureReport(30, <<F_180, F_0, F_0>>, ImuHeader),
    VitureReport(30, <<F_181, F_0, F_0>>, ImuHeader),
    QuatReport(36, <<F_0, F_0, F_m1, F_0>>, <<0, 0>>) }

HandleInterleavedReport ==
  \E bytes \in ReentrantReports, deviceIndex \in ReportIdx :
    /\ Handled < MaxInterleaved
    /\ HandleReport(bytes, deviceIndex)
    /\ UNCHANGED deliveryVars

SubscribeRecentering ==
  \E cb \in RecenteringCbs :
    /\ subs < MaxSubs
    /\ (OnOrientationChangeOf(cb) \/ OnOrientationChangeRotOf(cb))

NextReentrant ==
  \/ HandleInterleavedReport
  \/ Recenter
  \/ SubscribeRecentering
  \/ Unsubscribe

SpecReentrant == InitReport /\ [][NextReentrant]_vars

(* ------------------------- subscriber specification --------------------- *)
\* two subscriber functions subscribing to and unsubscribing from both
\* channels, in any order, around a report of each format, accepted or
\* rejected
SubscriberCbs == {"cb1", "cb2"}

SubscriberReports ==
  { VitureReport(30, <<F_180, F_0, F_0>>, ImuHeader),
    VitureReport(30, <<F_181, F_0, F_0>>, ImuHeader),
    QuatReport(36, <<F_0, F_0, F_m1, F_0>>, <<0, 0>>),
    EulerReport(12, <<F_0, F_180, F_0>>) }

HandleSubscriberReport ==
  \E bytes \in SubscriberReports :
    /\ Handled < MaxReports
    /\ HandleReport(bytes, 0)
    /\ UNCHANGED deliveryVars

SubscribeQuaternion ==
  \E cb \in SubscriberCbs :
    /\ subs < MaxSubscriptions
    /\ OnOrientationChangeOf(cb)

SubscribeRotation ==
  \E cb \in SubscriberCbs :
    /\ subs < MaxSubscriptions
    /\ OnOrientationChangeRotOf(cb)

NextSubscribers ==
  \/ HandleSubscriberReport
  \/ SubscribeQuaternion
  \/ SubscribeRotation
  \/ Unsubscribe

SpecSubscribers == InitReport /\ [][NextSubscribers]_vars

(* ------------------------ delivery specification ----------------------- *)
\* the engine as the page runs it: connect, checkExistingConnection and
\* disconnect one after another, the open interfaces dispatching
\* 'inputreport' events to the listeners the calls registered, the diagnostic
\* timers of _startIMU expiring. The host grants every open, send and close.
InitDelivery ==
  /\ Init
  /\ hidSupported = TRUE
  /\ authorized = {}

\* the reports the interfaces send: one the Viture parser accepts and one of
\* a single byte
DeliveryReports ==
  { VitureReport(30, <<F_180, F_0, F_0>>, ImuHeader),
    MakeReport(1, << [at |-> 0, data |-> <<0>>] >>) }

\* no 'inputreport' event is in the middle of its dispatch
Quiet == dispatch.queue = <<>>

\* an open interface receives an input report: the event is dispatched to the
\* listeners registered on the interface, in the order they were added
Dispatch(reports) ==
  \E d \in Devs, bytes \in reports :
    /\ Quiet
    /\ delivered < MaxDeliveries
    /\ opened[d]
    /\ dispatch' = [dev |-> d, bytes |-> bytes, queue |-> listeners[d], ran |-> 0]
    /\ delivered' = delivered + 1
    /\ UNCHANGED <<sessionSide, reportVars>>

DispatchReport == Dispatch(DeliveryReports)

\* the next listener of the event runs: (event) =>
\* this._handleInputReport(event, i), to completion (an exception it throws
\* is reported and the dispatch goes on)
InvokeListener ==
  /\ ~Quiet
  /\ HandleReport(dispatch.bytes, Head(dispatch.queue).index)
  /\ dispatch' = [dispatch EXCEPT !.queue = Tail(@), !.ran = @ + 1]
  /\ UNCHANGED delivered

\* the oldest diagnostic timer expires: its callback reads this._reportCount
\* and warns when that is 0 (arrived: the events dispatched since the timer
\* was set)
TimerExpires ==
  /\ Quiet
  /\ timers # <<>>
  /\ timers' = Tail(timers)
  /\ expired' = [call |-> Head(timers).call,
                 warned |-> (reportCount = 0),
                 arrived |-> delivered - Head(timers).base]
  /\ UNCHANGED <<sessionVars, hostVars, connVars, discVars, calls, faults,
                 commandVars, forwarderVars, shellVars, reportVars, deliveryVars>>

\* a step of connect, checkExistingConnection or disconnect between two
\* events
GrantedSessionStep ==
  /\ Quiet
  /\ \/ ConnectCall \/ ConnectNoneSelected \/ ConnectSelected \/ ConnectGetDevices
     \/ CheckCall \/ CheckNoDevices \/ CheckGetDevices
     \/ OpenSucceeds \/ SendSucceeds \/ ConnectReturn
     \/ DisconnectCall \/ CloseSucceeds

NextDelivery ==
  \/ GrantedSessionStep
  \/ DispatchReport
  \/ InvokeListener
  \/ TimerExpires

SpecDelivery == InitDelivery /\ [][NextDelivery]_vars

(* ------------------------- offset specification ------------------------ *)
\* the same sessions with recenter() called between the events, the
\* interfaces sending reports of every format, and the timers left pending
OffsetReports ==
  { VitureReport(30, <<F_180, F_0, F_0>>, ImuHeader),
    VitureReport(30, <<F_181, F_0, F_0>>, ImuHeader),
    QuatReport(36, <<F_0, F_0, F_m1, F_0>>, <<0, 0>>),
    EulerReport(12, <<F_0, F_180, F_0>>),
    MakeReport(1, << [at |-> 0, data |-> <<0>>] >>) }

DispatchOffsetReport == Dispatch(OffsetReports)

RecenterBetweenEvents == Quiet /\ Recenter

NextOffset ==
  \/ GrantedSessionStep
  \/ DispatchOffsetReport
  \/ InvokeListener
  \/ RecenterBetweenEvents

SpecOffset == InitDelivery /\ [][NextOffset]_vars

(* -------------------------- checksum specification --------------------- *)
\* calcCrc16 called directly on byte buffers and ranges inside them
CrcBuffers ==
  { <<>>, <<0>>, <<255>>, <<1, 2>>, <<255, 255, 255>>, <<0, 0, 0, 0>>,
    <<18, 52, 86, 120, 154>>, <<128, 64, 32, 16, 8, 4, 2, 1>>,
    <<49, 50, 51, 52, 53, 54, 55, 56, 57>> }

CalcCrc16 ==
  \E data \in CrcBuffers :
    \E start \in 0..Len(data) :
      \E length \in 0..(Len(data) - start) :
        /\ crcCall' = [data |-> data, start |-> start, length |-> length,
                       crc |-> calcCrc16(data, start, length)]
        /\ crcCall' # crcCall
        /\ UNCHANGED <<sessionVars, hostVars, connVars, discVars, calls, faults,
                       timerVars, cmdCall, forwarderVars, shellVars, reportVars,
                       deliveryVars>>

NextCrc == CalcCrc16

SpecCrc == InitReport /\ [][NextCrc]_vars

(* --------------------------- command specification --------------------- *)
\* _buildMcuCommand called directly and by the handshakes of connect and
\* checkExistingConnection, on an engine whose message counter has already
\* been through any number of commands
CounterStarts == {0, 255, 65534, 65535}
CmdIds == {21, 277}
CmdPayloads == { <<>>, <<1>>, <<0, 255>> }

InitCommand ==
  /\ device = NullDev
  /\ allDevices = NullDevices
  /\ connected = FALSE
  /\ msgCounter \in CounterStarts
  /\ quaternion = IdentityQuaternion
  /\ calibrationOffset = IdentityQuaternion
  /\ rotation = [yaw |-> 0, pitch |-> 0, roll |-> 0]
  /\ callbacks = <<>>
  /\ callbacksRot = <<>>
  /\ reportCount = 0
  /\ reportCounts = [i \in DevIdx |-> 0]
  /\ tokens = {} /\ subs = 0 /\ issued = <<>>
  /\ lastReport = NoReport
  /\ lastParser = "none" /\ lastThrew = FALSE /\ notified = <<>>
  /\ before = [quaternion |-> IdentityQuaternion,
               calibrationOffset |-> IdentityQuaternion,
               rotation |-> [yaw |-> 0, pitch |-> 0, roll |-> 0],
               sample |-> <<>>]
  /\ lastAccepted = <<>>
  /\ timers = <<>> /\ expired = NoExpiry
  /\ dispatch = NoDispatch /\ delivered = 0
  /\ crcCall = NoCrcCall /\ cmdCall = NoCmdCall
  /\ received = <<>> /\ udpSent = <<>>
  /\ frameCallbacks = <<>> /\ ended = FALSE /\ registered = <<>> /\ frames = 0
  /\ selectedDevice = NullSelection /\ selectedFor = 0 /\ requests = <<>>
  /\ hidSupported = TRUE
  /\ authorized = {}
  /\ opened = [d \in Devs |-> FALSE]
  /\ listeners = [d \in Devs |-> <<>>]
  /\ cpc = "idle" /\ cKind = "none" /\ cDevs = <<>> /\ ci = 0
  /\ si = 0 /\ sj = 0 /\ imuEnableCmd = <<>>
  /\ cResult = NoResult /\ openLog = <<>> /\ sendLog = <<>>
  /\ dpc = "idle" /\ dDevs = <<>> /\ di = 0 /\ closeLog = <<>>
  /\ calls = 0 /\ faults = 0

\* _buildMcuCommand(cmdId, dataBytes) called directly (n: the direct calls so
\* far)
BuildMcuCommand ==
  \E cmdId \in CmdIds, dataBytes \in CmdPayloads :
    /\ cmdCall.n < MaxBuilds
    /\ cmdCall' = [cmdId |-> cmdId, dataBytes |-> dataBytes, counter |-> msgCounter,
                   packet |-> buildMcuCommand(cmdId, dataBytes, msgCounter),
                   n |-> cmdCall.n + 1]
    /\ msgCounter' = NextMsgCounter(msgCounter)
    /\ UNCHANGED <<device, allDevices, connected, hostVars, connVars, discVars,
                   calls, faults, timerVars, crcCall, forwarderVars, shellVars,
                   reportVars,
                   deliveryVars>>

NextCommand ==
  \/ BuildMcuCommand
  \/ GrantedSessionStep

SpecCommand == InitCommand /\ [][NextCommand]_vars

(* -------------------------- overlap specification ---------------------- *)
\* connect or checkExistingConnection running while disconnect runs: a call
\* may begin while a call of the other kind is suspended at an await, and
\* the suspended calls resume in any order. No open, send or close is made
\* to fail; sendReport rejects on an interface that was closed meanwhile.
BeginDuring(kind) ==
  /\ Idle(cpc)
  /\ calls < MaxOverlapCalls
  /\ calls' = calls + 1
  /\ cKind' = kind
  /\ cDevs' = <<>> /\ ci' = 0 /\ si' = 0 /\ sj' = 0 /\ imuEnableCmd' = <<>>
  /\ openLog' = <<>> /\ sendLog' = <<>>
  /\ cResult' = NoResult
  /\ UNCHANGED <<sessionVars, hostVars, discVars, faults, timers>>
  /\ UNCHANGED offSession

\* connect() up to await navigator.hid.requestDevice
ConnectDuring == hidSupported /\ BeginDuring("connect") /\ cpc' = "request"

\* checkExistingConnection() up to await navigator.hid.getDevices
CheckDuring == hidSupported /\ BeginDuring("check") /\ cpc' = "checkGet"

\* disconnect() up to its first await (or to its end)
DisconnectDuring ==
  /\ Idle(dpc)
  /\ calls < MaxOverlapCalls
  /\ calls' = calls + 1
  /\ closeLog' = <<>>
  /\ dDevs' = allDevices.devs
  /\ ResumeCloseLoop(dDevs', 1, opened)
  /\ UNCHANGED <<msgCounter, hidSupported, authorized, listeners, connVars,
                 faults, timers>>
  /\ UNCHANGED offSession

\* await device.sendReport rejected because the interface is closed
SendToClosed ==
  /\ cpc = "send"
  /\ ~opened[cDevs[si]]
  /\ SendFails

NextOverlap ==
  \/ ConnectDuring \/ CheckDuring \/ DisconnectDuring
  \/ ConnectNoneSelected \/ ConnectSelected \/ ConnectGetDevices
  \/ CheckNoDevices \/ CheckGetDevices
  \/ OpenSucceeds \/ SendSucceeds \/ SendToClosed \/ ConnectReturn
  \/ CloseSucceeds

SpecOverlap == InitDelivery /\ [][NextOverlap]_vars

(* ------------------------- forwarder specification --------------------- *)
\* The forwarder of the main process. A number is NaN, an infinity, or
\* (-1)^neg * m * 2^e with m = 0 or m odd and below 2^24.
Finite(neg, m, e) == [kind |-> "finite", neg |-> neg, m |-> m, e |-> e]
NotANumber == [kind |-> "nan", neg |-> FALSE, m |-> 0, e |-> 0]
Infinite(neg) == [kind |-> "inf", neg |-> neg, m |-> 0, e |-> 0]

RECURSIVE Pow2(_)
Pow2(n) == IF n = 0 THEN 1 ELSE 2 * Pow2(n - 1)

RECURSIVE BitLength(_)
BitLength(m) == IF m = 0 THEN 0 ELSE 1 + BitLength(m \div 2)

Reverse(s) == [k \in 1..Len(s) |-> s[Len(s) + 1 - k]]

\* faulty variant: the bytes are written most significant first
setFloat64BigEndian(value, littleEndian) ==
  LET sign == IF value.neg THEN 128 ELSE 0 IN
  IF value.kind = "nan" THEN <<127, 248, 0, 0, 0, 0, 0, 0>>
  ELSE IF value.kind = "inf" THEN <<sign + 127, 240, 0, 0, 0, 0, 0, 0>>
  ELSE IF value.m = 0 THEN <<sign, 0, 0, 0, 0, 0, 0, 0>>
  ELSE LET len == BitLength(value.m)
           biased == 1023 + (len - 1) + value.e
           top28 == (value.m - Pow2(len - 1)) * Pow2(28 - (len - 1))
       IN << sign + (biased \div 16),
             (biased % 16) * 16 + (top28 \div 16777216),
             (top28 \div 65536) % 256,
             (top28 \div 256) % 256,
             top28 % 256, 0, 0, 0 >>

\* DataView.setFloat64(offset, value, littleEndian): the eight bytes written,
\* in memory order. IEEE 754 binary64: sign, 11 bits of biased exponent, 52
\* bits of fraction (of which a number as above uses the top 28 at most)
setFloat64(value, littleEndian) ==
  LET sign == IF value.neg THEN 128 ELSE 0
      be == IF value.kind = "nan" THEN <<127, 248, 0, 0, 0, 0, 0, 0>>
            ELSE IF value.kind = "inf" THEN <<sign + 127, 240, 0, 0, 0, 0, 0, 0>>
            ELSE IF value.m = 0 THEN <<sign, 0, 0, 0, 0, 0, 0, 0>>
            ELSE LET len == BitLength(value.m)
                     biased == 1023 + (len - 1) + value.e
                     top28 == (value.m - Pow2(len - 1)) * Pow2(28 - (len - 1))
                 IN << sign + (biased \div 16),
                       (biased % 16) * 16 + (top28 \div 16777216),
                       (top28 \div 65536) % 256,
                       (top28 \div 256) % 256,
                       top28 % 256, 0, 0, 0 >>
  IN IF littleEndian THEN Reverse(be) ELSE be

FTNIR_HOST == "127.0.0.1"
FTNIR_PORT == 5550

\* the 48 bytes processTrackingData writes for the message r
trackingBuffer(r) ==
  setFloat64(r.x, TRUE) \o setFloat64(r.y, TRUE) \o setFloat64(r.z, TRUE)
    \o setFloat64(r.yaw, TRUE) \o setFloat64(r.pitch, TRUE) \o setFloat64(r.roll, TRUE)

\* the numbers the page sends: 0, 1, -1.5, 180, -90.5, 0.25, NaN, -Infinity
TrackingNumbers ==
  { Finite(FALSE, 0, 0), Finite(FALSE, 1, 0), Finite(TRUE, 3, 0 - 1),
    Finite(FALSE, 45, 2), Finite(TRUE, 181, 0 - 1), Finite(FALSE, 1, 0 - 2),
    NotANumber, Infinite(TRUE) }

\* tracking-data messages: a position and an orientation
TrackingMessages ==
  { [x |-> a, y |-> Finite(FALSE, 1, 0), z |-> Finite(TRUE, 3, 0 - 1),
     yaw |-> b, pitch |-> Finite(TRUE, 181, 0 - 1), roll |-> a] :
      a \in TrackingNumbers, b \in TrackingNumbers }

\* ipcMain delivers a 'send-tracking-data' message: processTrackingData
\* fills the buffer and hands it to udp.send
ProcessTrackingData ==
  \E r \in TrackingMessages :
    /\ Len(received) < MaxMessages
    /\ received' = Append(received, r)
    /\ udpSent' = Append(udpSent, [address |-> FTNIR_HOST, port |-> FTNIR_PORT,
                                   bytes |-> trackingBuffer(r)])
    /\ UNCHANGED <<sessionVars, hostVars, connVars, discVars, calls, faults,
                   timerVars, commandVars, shellVars, reportVars, deliveryVars>>

NextForwarder == ProcessTrackingData

SpecForwarder == InitReport /\ [][NextForwarder]_vars

(* ------------------------ XR session specification -------------------- *)
\* a VitureXRSession after its constructor: the page registers frame
\* callbacks and cancels handles it was given, the loop runs frames, and the
\* session may be ended. A registered callback is named by the number of its
\* registration; what a callback registers or cancels while a frame runs
\* acts on the array the loop has already replaced, as a call after the
\* frame does.
XrFrame ==
  UNCHANGED <<sessionVars, hostVars, connVars, discVars, calls, faults,
              timerVars, commandVars, forwarderVars, selectVars, reportVars,
              deliveryVars>>

\* requestAnimationFrame(callback): the handle is the length of the array
RequestAnimationFrame ==
  /\ Len(registered) < MaxRegistrations
  /\ frameCallbacks' = Append(frameCallbacks, Len(registered) + 1)
  /\ registered' = Append(registered,
                          [handle |-> Len(frameCallbacks), frame |-> frames,
                           cancelled |-> FALSE, invoked |-> 0])
  /\ UNCHANGED <<ended, frames>>
  /\ XrFrame

\* this._frameCallbacks after cancelAnimationFrame(handle)
cancelAnimationFrame(cbs, handle) ==
  IF handle < Len(cbs) THEN [cbs EXCEPT ![handle + 1] = 0] ELSE cbs

\* the page cancels a handle a registration returned to it
CancelAnimationFrame ==
  \E n \in 1..Len(registered) :
    /\ ~registered[n].cancelled
    /\ frameCallbacks' = cancelAnimationFrame(frameCallbacks, registered[n].handle)
    /\ registered' = [registered EXCEPT ![n].cancelled = TRUE]
    /\ UNCHANGED <<ended, frames>>
    /\ XrFrame

\* one run of the loop function of _startFrameLoop: the array is copied and
\* replaced by an empty one, then every entry that is not null is called
FrameLoop ==
  /\ ~ended
  /\ frames < MaxFrames
  /\ frameCallbacks' = <<>>
  /\ registered' =
       [n \in 1..Len(registered) |->
          IF \E k \in 1..Len(frameCallbacks) : frameCallbacks[k] = n
          THEN [registered[n] EXCEPT !.invoked = @ + 1]
          ELSE registered[n]]
  /\ frames' = frames + 1
  /\ UNCHANGED ended
  /\ XrFrame

\* end(): the loop stops
EndSession ==
  /\ ~ended
  /\ ended' = TRUE
  /\ UNCHANGED <<frameCallbacks, registered, frames>>
  /\ XrFrame

NextXr ==
  \/ RequestAnimationFrame
  \/ CancelAnimationFrame
  \/ FrameLoop
  \/ EndSession

SpecXr == InitReport /\ [][NextXr]_vars

(* ---------------------- device selection specification ---------------- *)
\* the main process answering select-hid-device events: each event runs the
\* handler up to its polling loop, the user's choice arrives as a
\* 'send-device-selection' message, and the handlers wake every 100 ms.
\* Events may arrive while earlier handlers still poll; the user selects
\* once for each pending event, a device of its list.
SelectFrame ==
  UNCHANGED <<sessionVars, hostVars, connVars, discVars, calls, faults,
              timerVars, commandVars, forwarderVars, xrVars, reportVars,
              deliveryVars>>

\* the device lists an event carries (deviceId of each entry)
DeviceLists == { {}, {"hidA"}, {"hidA", "hidB"} }

\* the 'select-hid-device' handler up to its first await (or to its return
\* on an empty list)
SelectHidDevice ==
  \E list \in DeviceLists :
    /\ Len(requests) < MaxRequests
    /\ selectedDevice' = NullSelection
    /\ selectedFor' = 0
    /\ requests' = Append(requests,
                          [list |-> list,
                           pc |-> IF list = {} THEN "returned" ELSE "polling",
                           chosen |-> NullSelection, called |-> <<>>])
    /\ SelectFrame

\* the user picks a device for a pending event: sendDeviceSelection, then
\* processDeviceSelection in the main process
ProcessDeviceSelection ==
  \E r \in 1..Len(requests) :
    \E d \in requests[r].list :
      /\ requests[r].pc = "polling"
      /\ requests[r].chosen = NullSelection
      /\ selectedDevice' = d
      /\ selectedFor' = r
      /\ requests' = [requests EXCEPT ![r].chosen = d]
      /\ SelectFrame

\* a handler's 100 ms timer fires while selectedDevice is set: the loop
\* ends, the handler clears selectedDevice and calls its callback with the
\* id (while it is null the handler only sleeps again)
PollWakes ==
  \E r \in 1..Len(requests) :
    /\ requests[r].pc = "polling"
    /\ selectedDevice # NullSelection
    /\ requests' = [requests EXCEPT ![r].pc = "done",
                                     ![r].called = Append(@, selectedDevice)]
    /\ selectedDevice' = NullSelection
    /\ selectedFor' = 0
    /\ SelectFrame

NextSelect ==
  \/ SelectHidDevice
  \/ ProcessDeviceSelection
  \/ PollWakes

SpecSelect == InitReport /\ [][NextSelect]_vars

(* ======================= session manager claims ======================== *)
\* the running call got past its open loop
PastOpenLoop == ci > Len(cDevs) /\ cpc \in {"send", "post", "done"}
\* the call returned normally (connect: its device info; check: true)
ReturnedSession == cpc = "done" /\ cResult.status \in {"ok", "true"}
\* connect (not checkExistingConnection) returned its device info
ConnectReturned == cpc = "done" /\ cKind = "connect" /\ cResult.status = "ok"
\* indices of cDevs whose interface is open
OpenIdx == {k \in 1..Len(cDevs) : opened[cDevs[k]]}
\* the open() attempt on index k was made and rejected
OpenFailedAt(k) == \E n \in 1..Len(openLog) : openLog[n].index = k /\ ~openLog[n].ok

\* C1: connect fails (throws, and the engine is not left marked connected)
\* whenever it got to open interfaces and none of them ended up open.
C1_ZeroOpenFails ==
  (cpc = "done" /\ cKind = "connect" /\ ci > 0 /\ OpenIdx = {})
    => (cResult.status = "threw" /\ ~connected)

\* C1 case: connect returned its device info and left the engine connected
\* although every open() was rejected and no interface is open
C1_Witness ==
  /\ ConnectReturned /\ connected /\ Len(cDevs) = 2
  /\ \A k \in 1..Len(cDevs) : OpenFailedAt(k) /\ ~opened[cDevs[k]]

\* C2: a rejected open() never stops the loop: past the loop every
\* enumerated interface is open or had its own rejected open() attempt; and a
\* call that ends with at least one interface open returns normally and
\* leaves the engine connected.
C2_OpenFailureIsolated ==
  /\ PastOpenLoop =>
       \A k \in 1..Len(cDevs) : opened[cDevs[k]] \/ OpenFailedAt(k)
  /\ (cpc = "done" /\ ci > 0 /\ OpenIdx # {}) => (ReturnedSession /\ connected)

\* C2 witness: a call returned after an open() was rejected and a later
\* enumerated interface was opened nevertheless
C2_Witness ==
  /\ ReturnedSession
  /\ \E n, m \in 1..Len(openLog) :
       n < m /\ ~openLog[n].ok /\ openLog[m].ok /\ openLog[n].index < openLog[m].index

\* C3: after connect returns with some interface open, the session's
\* interface set is exactly the set of open interfaces.
C3_SessionIsOpenSet ==
  (ConnectReturned /\ OpenIdx # {})
    => (~allDevices.null /\ Range(allDevices.devs) = {cDevs[k] : k \in OpenIdx})

\* C3 case: of two interfaces the second failed to open, and the session set
\* returned by connect holds both
C3_Witness ==
  /\ ConnectReturned /\ Len(cDevs) = 2
  /\ opened[cDevs[1]] /\ OpenFailedAt(2) /\ ~opened[cDevs[2]]
  /\ ~allDevices.null /\ allDevices.devs = cDevs

\* C4: after connect returns with some interface open, the primary
\* interface is the first enumerated interface that is open.
C4_PrimaryIsFirstOpened ==
  (ConnectReturned /\ OpenIdx # {})
    => device = cDevs[CHOOSE k \in OpenIdx : \A m \in OpenIdx : k <= m]

\* C4 case: the first interface failed to open, the second opened, and the
\* primary interface connect left is the first
C4_Witness ==
  /\ ConnectReturned /\ Len(cDevs) = 2
  /\ OpenFailedAt(1) /\ ~opened[cDevs[1]] /\ opened[cDevs[2]]
  /\ device = cDevs[1]

\* C5: while a handshake send is in flight or has been made, every open
\* interface of the call carries the listener this call registered for it; and
\* when the call has returned, all four sends to every open interface have
\* settled.
C5_ListenThenHandshakeThenReturn ==
  /\ (cpc = "send" \/ sendLog # <<>>) =>
       \A k \in OpenIdx :
         \E n \in 1..Len(listeners[cDevs[k]]) :
           listeners[cDevs[k]][n] = [index |-> k - 1, call |-> calls]
  /\ ReturnedSession =>
       \A k \in OpenIdx :
         Cardinality({n \in 1..Len(sendLog) : sendLog[n].dev = cDevs[k]}) = 4

\* C5 witness: a second call returned over two interfaces that were open
\* before it began, after all eight sends
C5_Witness ==
  /\ ReturnedSession /\ calls = 2 /\ openLog = <<>>
  /\ Cardinality(OpenIdx) = 2 /\ Len(sendLog) = 8

\* the k-th open index of cDevs, in enumeration order
RECURSIVE NthOpen(_, _)
NthOpen(n, from) ==
  LET k == CHOOSE x \in OpenIdx : x >= from /\ \A y \in OpenIdx : y >= from => x <= y
  IN IF n = 1 THEN k ELSE NthOpen(n - 1, k + 1)

\* the bytes the handshake is to send as command j (0 the formal packet)
ExpectedCommand(j, data) ==
  IF j = 1 THEN data = <<255, 254, 21, 1>>
  ELSE IF j = 2 THEN data = <<21, 1>>
  ELSE IF j = 3 THEN data = <<1>>
  ELSE /\ Len(data) = 20
       /\ data[1] = 255 /\ data[2] = 254
       /\ data[15] = 21 /\ data[16] = 0
       /\ data[17] + 256 * data[18] = msgCounter
       /\ data[19] = 1 /\ data[20] = 3

\* C6: when the handshake is over, the sends attempted are exactly: for each
\* open interface in enumeration order, the formal packet and then the three
\* shorthand sequences, whatever each send's outcome; nothing is sent to an
\* interface that is not open.
C6_HandshakeAttemptsAll ==
  (PastOpenLoop /\ cpc \in {"post", "done"}) =>
    /\ Len(sendLog) = 4 * Cardinality(OpenIdx)
    /\ \A n \in 1..Len(sendLog) :
         /\ sendLog[n].cmd = (n - 1) % 4
         /\ sendLog[n].dev = cDevs[NthOpen(((n - 1) \div 4) + 1, 1)]
         /\ ExpectedCommand(sendLog[n].cmd, sendLog[n].data)

\* C6 witness: the handshake ended over two open interfaces although the
\* first send to the first and a later send to the second were rejected
C6_Witness ==
  /\ cpc = "post" /\ Len(sendLog) = 8
  /\ ~sendLog[1].ok /\ ~sendLog[6].ok /\ sendLog[8].ok

\* C7: when disconnect has completed, the session state is cleared, and every
\* interface of the session is closed or had its own rejected close() attempt.
C7_DisconnectClears ==
  dpc = "done" =>
    /\ ~connected /\ device = NullDev /\ allDevices = NullDevices
    /\ \A k \in 1..Len(dDevs) :
         \/ ~opened[dDevs[k]]
         \/ \E n \in 1..Len(closeLog) : closeLog[n].dev = dDevs[k] /\ ~closeLog[n].ok

\* C7 witness: disconnect completed after the first close() was rejected and
\* the second interface was closed nevertheless
C7_Witness ==
  /\ dpc = "done" /\ Len(closeLog) = 2
  /\ ~closeLog[1].ok /\ closeLog[2].ok

\* C8: a step in which connect starts, or throws for want of WebHID or of a
\* selected device, leaves connected, the interface set, the primary
\* interface and the message counter as they were.
C8_FailedConnectKeepsState ==
  [][((cKind' = "connect" /\ (cpc' = "request" \/ cResult'.status = "threw"))
        /\ (cpc' # cpc \/ calls' # calls))
       => sessionVars' = sessionVars]_vars

\* C8 witness: connect threw for want of a selection while an earlier session
\* was connected and had built a command
C8_Witness ==
  /\ cpc = "done" /\ cResult = Threw("No Viture device selected")
  /\ connected /\ msgCounter = 1 /\ ~allDevices.null

(* ======================== report handler claims ======================== *)
\* a report was handled in the last step
ReportHandled == lastReport # NoReport
\* the report starts with the IMU header 0xFF 0xFC
HasImuHeader(bytes) == Len(bytes) >= 2 /\ bytes[1] = 255 /\ bytes[2] = 252
\* the format named by the precedence of the specification
FormatByPrecedence(bytes) ==
  CASE Len(bytes) >= 30 /\ HasImuHeader(bytes) -> "VitureImu"
    [] Len(bytes) >= 36 /\ ~HasImuHeader(bytes) -> "LegacyQuaternion"
    [] Len(bytes) >= 12 /\ Len(bytes) < 36
         /\ ~(Len(bytes) >= 30 /\ HasImuHeader(bytes)) -> "LegacyEuler"
    [] Len(bytes) < 12 -> "Unrecognized"

\* C9: the parser run on a handled report is the one its length and first two
\* bytes select in the precedence VitureImu, LegacyQuaternion, LegacyEuler
\* (none for Unrecognized), and a report of 36 bytes or more with the header
\* FF FC is not parsed as LegacyQuaternion.
C9_ClassifierPrecedence ==
  ReportHandled =>
    LET bytes == lastReport.bytes
        format == FormatByPrecedence(bytes)
    IN /\ lastParser = (IF format = "Unrecognized" THEN "none" ELSE format)
       /\ (Len(bytes) >= 36 /\ HasImuHeader(bytes)) => lastParser = "VitureImu"

\* C9 witness: a report of 40 bytes with the header FF FC was handled and
\* parsed as VitureImu
C9_Witness ==
  /\ ReportHandled /\ Len(lastReport.bytes) = 40 /\ HasImuHeader(lastReport.bytes)
  /\ lastParser = "VitureImu" /\ ~lastThrew

\* a remapped angle of the Viture payload is NaN or beyond 180 degrees
\* (negating a raw value keeps both)
BadAngle(bytes, offset) ==
  LET a == getFloat32(<<ByteAt(bytes, offset), ByteAt(bytes, offset + 1),
                        ByteAt(bytes, offset + 2), ByteAt(bytes, offset + 3)>>,
                      FALSE)
  IN a = NaN \/ a = PosInf \/ a = NegInf
       \/ (a > 180 * SCALE /\ a < PosInf) \/ (a < 0 - (180 * SCALE) /\ a > NegInf)
InvalidVitureReport(bytes) ==
  /\ Len(bytes) >= 30 /\ HasImuHeader(bytes)
  /\ \E o \in {18, 22, 26} : BadAngle(bytes, o)

\* C10: a step that handles a VitureImu report with an angle that is NaN or
\* beyond 180 degrees leaves the quaternion, the Euler triple and the
\* calibration offset as they were and invokes no subscriber.
C10_InvalidVitureDiscarded ==
  [][(lastReport' # NoReport /\ ~lastThrew' /\ InvalidVitureReport(lastReport'.bytes))
       => /\ quaternion' = quaternion
          /\ rotation' = rotation
          /\ calibrationOffset' = calibrationOffset
          /\ notified' = <<>>]_vars

\* C10, the part the code keeps: such a step leaves the quaternion and the
\* calibration offset as they were and invokes no subscriber
InvalidVitureKeepsQuaternion ==
  [][(lastReport' # NoReport /\ ~lastThrew' /\ InvalidVitureReport(lastReport'.bytes))
       => /\ quaternion' = quaternion
          /\ calibrationOffset' = calibrationOffset
          /\ notified' = <<>>]_vars

\* C10 case: an invalid VitureImu report was handled with a subscriber of each
\* kind registered, and the Euler triple holds its out-of-range angle
C10_Witness ==
  /\ ReportHandled /\ ~lastThrew /\ InvalidVitureReport(lastReport.bytes)
  /\ callbacks # <<>> /\ callbacksRot # <<>>
  /\ notified = <<>>
  /\ rotation.yaw = 0 - (181 * SCALE)

\* the last step handled a report without throwing, and it was accepted: the
\* parser went on to _notifyCallbacks
HandledStep == lastReport' # NoReport /\ ~lastThrew'
AcceptedStep == HandledStep /\ notified' # <<>>
\* quaternion, Euler triple and calibration offset stay as they were and
\* nothing is notified
DiscardedUnchanged ==
  /\ quaternion' = quaternion
  /\ rotation' = rotation
  /\ calibrationOffset' = calibrationOffset
  /\ notified' = <<>>

\* the big-endian float32 at a 0-based offset of the report
FloatAt(bytes, o) == Float32(bytes[o + 1], bytes[o + 2], bytes[o + 3], bytes[o + 4])
\* the quaternion a legacy quaternion report carries at offsets 20/24/28/32
RawQuaternionAt20(bytes) ==
  [w |-> FloatAt(bytes, 20), x |-> FloatAt(bytes, 24),
   y |-> FloatAt(bytes, 28), z |-> FloatAt(bytes, 32)]
\* 0.5 <= sqrt(w^2 + x^2 + y^2 + z^2) <= 1.5, as 1/4 <= sum of squares <= 9/4
MagnitudeInRange(q) ==
  /\ IsFinite(q.w) /\ IsFinite(q.x) /\ IsFinite(q.y) /\ IsFinite(q.z)
  /\ LET ss == (q.w * q.w) + (q.x * q.x) + (q.y * q.y) + (q.z * q.z)
     IN 4 * ss >= SCALE * SCALE /\ 4 * ss <= 9 * SCALE * SCALE

\* C11: a step that handles a LegacyQuaternion report accepts it exactly when
\* its magnitude lies in [0.5, 1.5], both ends included, and when it rejects
\* it the quaternion, the Euler triple and the calibration offset stay as they
\* were and no subscriber is invoked.
C11_MagnitudeWindow ==
  [][(HandledStep /\ FormatByPrecedence(lastReport'.bytes) = "LegacyQuaternion")
       => LET q == RawQuaternionAt20(lastReport'.bytes)
          IN /\ MagnitudeInRange(q) <=> (notified' # <<>>)
             /\ ~MagnitudeInRange(q) => DiscardedUnchanged]_vars

\* C11 witness: a report of magnitude exactly 0.5 was accepted and handed to
\* a quaternion subscriber
C11_Witness ==
  /\ ReportHandled /\ lastParser = "LegacyQuaternion"
  /\ RawQuaternionAt20(lastReport.bytes) = [w |-> SCALE \div 2, x |-> 0, y |-> 0, z |-> 0]
  /\ \E k \in 1..Len(notified) :
       notified[k].chan = "quaternion" /\ notified[k].q.w = SCALE \div 2

\* C11 witness of the other side: a report of magnitude 1.51 was rejected with
\* subscribers of both kinds registered
C11_RejectedJustOutside ==
  /\ ReportHandled /\ lastParser = "LegacyQuaternion"
  /\ lastReport.bytes = QuatReport(36, <<F_0, F_151, F_0, F_0>>, <<0, 0>>)
  /\ callbacks # <<>> /\ callbacksRot # <<>> /\ notified = <<>>

\* one of the three angles a legacy Euler report carries at offsets 0/4/8 is
\* NaN
EulerAngleNaN(bytes) == \E o \in {0, 4, 8} : FloatAt(bytes, o) = NaN

\* C12: a step that handles a LegacyEuler report with a NaN angle leaves the
\* quaternion as it was and invokes no subscriber.
C12_NaNEulerDiscarded ==
  [][(HandledStep /\ FormatByPrecedence(lastReport'.bytes) = "LegacyEuler"
        /\ EulerAngleNaN(lastReport'.bytes))
       => (quaternion' = quaternion /\ notified' = <<>>)]_vars

\* C12 case: a LegacyEuler report with a NaN angle was handled, the stored
\* quaternion is NaN and a quaternion subscriber was called with it
C12_Witness ==
  /\ ReportHandled /\ lastParser = "LegacyEuler" /\ EulerAngleNaN(lastReport.bytes)
  /\ quaternion.w = NaN
  /\ \E k \in 1..Len(notified) :
       notified[k].chan = "quaternion" /\ notified[k].q.w = NaN

\* C13: a step that handles a report of fewer than 12 bytes raises no error,
\* leaves the quaternion, the Euler triple and the calibration offset as they
\* were and invokes no subscriber.
C13_ShortReportSilent ==
  [][(lastReport' # NoReport /\ Len(lastReport'.bytes) < 12)
       => (~lastThrew' /\ DiscardedUnchanged)]_vars

\* the reports of 2 to 11 bytes are discarded as the claim says
ShortReportOfTwoOrMoreSilent ==
  [][(lastReport' # NoReport /\ Len(lastReport'.bytes) < 12
        /\ Len(lastReport'.bytes) >= 2)
       => (~lastThrew' /\ DiscardedUnchanged)]_vars

\* C13 case: the handler threw on a report of one byte, after counting it for
\* its device and before counting it in the total
C13_Witness ==
  /\ ReportHandled /\ Len(lastReport.bytes) = 1 /\ lastThrew
  /\ reportCounts[lastReport.index] = 1 /\ reportCount = 0

\* C15: a step that accepts a sample stores the sample's own Euler triple
\* next to its quaternion: for a VitureImu report the remapped angles of its
\* payload, for a LegacyEuler report the roll, pitch and yaw it carries.
C15_BothRepresentationsUpdated ==
  [][AcceptedStep =>
       LET bytes == lastReport'.bytes
           format == FormatByPrecedence(bytes)
       IN /\ format = "VitureImu" =>
               rotation' = [yaw |-> Neg(FloatAt(bytes, 18)),
                            roll |-> Neg(FloatAt(bytes, 22)),
                            pitch |-> FloatAt(bytes, 26)]
          /\ format = "LegacyEuler" =>
               rotation' = [roll |-> FloatAt(bytes, 0),
                            pitch |-> FloatAt(bytes, 4),
                            yaw |-> FloatAt(bytes, 8)]]_vars

\* the part the code keeps: an accepted VitureImu report stores its triple
VitureUpdatesBoth ==
  [][(AcceptedStep /\ FormatByPrecedence(lastReport'.bytes) = "VitureImu")
       => rotation' = [yaw |-> Neg(FloatAt(lastReport'.bytes, 18)),
                       roll |-> Neg(FloatAt(lastReport'.bytes, 22)),
                       pitch |-> FloatAt(lastReport'.bytes, 26)]]_vars

\* C15 case: a LegacyEuler report with roll 180 was accepted; the quaternion
\* subscriber was handed the quaternion of that sample and the Euler
\* subscriber the triple of before it
C15_Witness ==
  /\ ReportHandled /\ lastParser = "LegacyEuler"
  /\ FloatAt(lastReport.bytes, 0) = 180 * SCALE
  /\ rotation = [yaw |-> 0, pitch |-> 0, roll |-> 0]
  /\ \E k \in 1..Len(notified) :
       notified[k].chan = "quaternion" /\ notified[k].q.x = SCALE
  /\ \E k \in 1..Len(notified) :
       notified[k].chan = "rotation" /\ notified[k].r.roll = 0

\* C20: while the calibration offset is identity, a step that accepts a
\* LegacyQuaternion report calls every quaternion subscriber, and each with
\* exactly the quaternion the report carries big-endian at offsets 20, 24, 28
\* and 32.
C20_IdentityOffsetNotifiesRaw ==
  [][(AcceptedStep /\ FormatByPrecedence(lastReport'.bytes) = "LegacyQuaternion"
        /\ calibrationOffset = IdentityQuaternion)
       => /\ \A k \in 1..Len(notified') :
               notified'[k].chan = "quaternion"
                 => notified'[k].q = RawQuaternionAt20(lastReport'.bytes)
          /\ \A c \in 1..Len(callbacks) :
               \E k \in 1..Len(notified') :
                 notified'[k].chan = "quaternion" /\ notified'[k].cb = callbacks[c]]_vars

\* C20 witness: the 36-byte report carrying w = 1, x = y = z = 0 was accepted
\* under the identity offset and a quaternion subscriber was called with
\* {w: 1, x: 0, y: 0, z: 0}
C20_Witness ==
  /\ ReportHandled
  /\ lastReport.bytes = QuatReport(36, <<F_1, F_0, F_0, F_0>>, <<0, 0>>)
  /\ before.calibrationOffset = IdentityQuaternion
  /\ \E k \in 1..Len(notified) :
       notified[k].chan = "quaternion"
         /\ notified[k].q = [w |-> SCALE, x |-> 0, y |-> 0, z |-> 0]

(* ===================== calibration and sequence claims ================= *)
\* the report handled last was classified into a format and rejected by its
\* parser
LastReportRejected ==
  /\ lastReport # NoReport /\ ~lastThrew
  /\ lastParser \in {"VitureImu", "LegacyQuaternion", "LegacyEuler"}
  /\ notified = <<>>

\* C14: the accepted report that follows a rejected one leaves the stored
\* quaternion and Euler triple, and hands to the subscribers of both kinds the
\* values, that it would have with the engine as it was before the rejected
\* report.
C14_RejectedReportLeavesNoTrace ==
  [][(LastReportRejected /\ AcceptedStep)
       => LET expected == ParseReport(lastReport'.bytes, before.rotation,
                                      before.quaternion, before.calibrationOffset)
          IN /\ quaternion' = expected.quaternion
             /\ rotation' = expected.rotation
             /\ calibrationOffset' = before.calibrationOffset
             /\ notified' = notifyCallbacks(expected.quaternion, expected.rotation,
                                            callbacks, callbacksRot)]_vars

\* C14 case: a legacy quaternion report was accepted right after a rejected
\* VitureImu report, and an Euler subscriber was handed the rejected report's
\* out-of-range yaw
C14_Witness ==
  /\ ReportHandled /\ lastParser = "LegacyQuaternion"
  /\ before.rotation.yaw = 0 - (181 * SCALE)
  /\ \E k \in 1..Len(notified) :
       notified[k].chan = "rotation" /\ notified[k].r.yaw = 0 - (181 * SCALE)

\* C18: when the calibration offset is the stored quaternion, as recenter()
\* leaves it, a report identical to the one accepted last leaves the stored
\* quaternion at identity.
C18_RecenterThenSameSampleIsIdentity ==
  [][(calibrationOffset = quaternion /\ lastAccepted # <<>>
        /\ HandledStep /\ lastReport'.bytes = lastAccepted)
       => quaternion' = IdentityQuaternion]_vars

\* the part the code keeps: when the offset recentered on is the raw
\* quaternion of the sample (no recenter() came before that sample) and the
\* sample has unit magnitude, the repeated sample leaves identity
RawQuaternionOf(bytes) ==
  ParseReport(bytes, rotation, IdentityQuaternion, IdentityQuaternion).quaternion
RecenterOnRawUnitSampleIsIdentity ==
  [][(calibrationOffset = quaternion /\ lastAccepted # <<>>
        /\ HandledStep /\ lastReport'.bytes = lastAccepted
        /\ calibrationOffset = RawQuaternionOf(lastAccepted)
        /\ SumSquares(quaternion.w, quaternion.x, quaternion.y, quaternion.z)
             = SCALE * SCALE)
       => quaternion' = IdentityQuaternion]_vars

\* C18 case: a second recenter() on a sample of unit magnitude, the sample
\* repeated, and the stored quaternion is not identity
C18_Witness ==
  /\ ReportHandled /\ ~lastThrew /\ lastReport.bytes = before.sample
  /\ before.calibrationOffset = before.quaternion
  /\ SumSquares(before.quaternion.w, before.quaternion.x,
                before.quaternion.y, before.quaternion.z) = SCALE * SCALE
  /\ quaternion = [w |-> 0, x |-> 0 - SCALE, y |-> 0, z |-> 0]

\* the raw quaternion of a sample: the four floats of a legacy quaternion
\* report, or the quaternion of the angles of a legacy Euler report or of the
\* remapped angles of a VitureImu report
SampleQuaternion(bytes) ==
  LET format == FormatByPrecedence(bytes)
  IN IF format = "LegacyQuaternion" THEN RawQuaternionAt20(bytes)
     ELSE IF format = "LegacyEuler"
     THEN eulerToQuaternion(FloatAt(bytes, 0), FloatAt(bytes, 4), FloatAt(bytes, 8))
     ELSE eulerToQuaternion(Neg(FloatAt(bytes, 22)), FloatAt(bytes, 26),
                            Neg(FloatAt(bytes, 18)))
\* the Hamilton product a * b of two quaternions with finite components, in
\* units of 1/SCALE
Hamilton(a, b) ==
  [w |-> ((a.w * b.w) - (a.x * b.x) - (a.y * b.y) - (a.z * b.z)) \div SCALE,
   x |-> ((a.w * b.x) + (a.x * b.w) + (a.y * b.z) - (a.z * b.y)) \div SCALE,
   y |-> ((a.w * b.y) - (a.x * b.z) + (a.y * b.w) + (a.z * b.x)) \div SCALE,
   z |-> ((a.w * b.z) + (a.x * b.y) - (a.y * b.x) + (a.z * b.w)) \div SCALE]
Conjugate(q) == [w |-> q.w, x |-> 0 - q.x, y |-> 0 - q.y, z |-> 0 - q.z]

\* C19: a step that accepts a sample stores conjugate(offset) * raw, the
\* offset being the calibration offset the step starts with and raw the
\* sample's quaternion.
C19_CalibratedIsConjugateOffsetTimesRaw ==
  [][AcceptedStep =>
       /\ quaternion' = Hamilton(Conjugate(calibrationOffset),
                                 SampleQuaternion(lastReport'.bytes))
       /\ calibrationOffset' = calibrationOffset]_vars

\* C19 witness: a sample was accepted under an offset that does not commute
\* with it, and the stored quaternion is the product with the offset on the
\* left
C19_Witness ==
  /\ ReportHandled /\ notified # <<>>
  /\ before.calibrationOffset # IdentityQuaternion
  /\ Hamilton(Conjugate(before.calibrationOffset), SampleQuaternion(lastReport.bytes))
       # Hamilton(SampleQuaternion(lastReport.bytes), Conjugate(before.calibrationOffset))
  /\ quaternion = Hamilton(Conjugate(before.calibrationOffset),
                           SampleQuaternion(lastReport.bytes))

(* ========================== subscriber claims ========================== *)
\* the invocations of the callbacks of one channel among those of the last
\* report, in the order they were made
InvocationsOn(chan, log) == SelectSeq(log, LAMBDA e : e.chan = chan)
\* a sequence without repetition
NoRepeat(seq) == \A i, j \in 1..Len(seq) : seq[i] = seq[j] => i = j
\* a step in which one of the subscribe functions was called
SubscribeStep == subs' = subs + 1
\* a step in which a returned unsubscribe function removed its callback
UnsubscribeStep ==
  /\ subs' = subs /\ tokens' = tokens
  /\ (callbacks' # callbacks \/ callbacksRot' # callbacksRot)
\* next holds the elements of set in their order, with cb added last if it
\* was not among them
SubscribedLast(set, next, cb) ==
  IF \E k \in 1..Len(set) : set[k] = cb THEN next = set ELSE next = set \o <<cb>>

C17_ChannelsIndependent ==
  [][/\ UnsubscribeStep =>
          \E t \in tokens :
            \/ /\ t.chan = "quaternion" /\ callbacksRot' = callbacksRot
               /\ callbacks' = SelectSeq(callbacks, LAMBDA c : c # t.cb)
            \/ /\ t.chan = "rotation" /\ callbacks' = callbacks
               /\ callbacksRot' = SelectSeq(callbacksRot, LAMBDA c : c # t.cb)
     /\ SubscribeStep => (callbacks' = callbacks \/ callbacksRot' = callbacksRot)
     /\ HandledStep =>
          \A t \in tokens :
            LET set == IF t.chan = "quaternion" THEN callbacks ELSE callbacksRot
            IN (\A k \in 1..Len(set) : set[k] # t.cb)
                 => \A n \in 1..Len(notified') :
                      ~(notified'[n].chan = t.chan /\ notified'[n].cb = t.cb)]_vars

\* C17 witness: cb1 was subscribed to both channels, its quaternion token was
\* called, and the sample accepted afterwards was handed to cb1 on the Euler
\* channel only
C17_Witness ==
  /\ ReportHandled
  /\ [chan |-> "quaternion", cb |-> "cb1"] \in tokens
  /\ [chan |-> "rotation", cb |-> "cb1"] \in tokens
  /\ callbacks = <<>> /\ callbacksRot = <<"cb1">>
  /\ Len(notified) = 2 /\ notified[1].chan = "rotation" /\ notified[1].cb = "cb1"

(* ===================== engine and delivery claims ===================== *)
\* a step of recenter(): nothing but the offset and the record of the last
\* report moves
RecenterStep ==
  /\ UNCHANGED <<sessionSide, deliveryVars, quaternion, rotation, subscriberVars,
                 reportCount, reportCounts, lastAccepted>>
  /\ lastReport' = NoReport

\* C21: the calibration offset is identity after construction, and a step
\* changes it only if the step is recenter(), which leaves in it the value the
\* quaternion has at the call: no report the interfaces dispatch, whatever its
\* format and whether accepted, rejected or thrown on, and no step of connect,
\* checkExistingConnection or disconnect changes it.
C21_OffsetWrittenOnlyByRecenter ==
  /\ calibrationOffset = IdentityQuaternion
  /\ [][calibrationOffset' # calibrationOffset
         => (RecenterStep /\ calibrationOffset' = quaternion)]_vars

\* C21 witness: the offset was taken from one sample during a session, and a
\* later accepted sample moved the quaternion away from it
C21_Witness ==
  /\ connected
  /\ calibrationOffset # IdentityQuaternion
  /\ lastReport # NoReport /\ lastAccepted = lastReport.bytes
  /\ before.calibrationOffset = calibrationOffset
  /\ before.quaternion # quaternion
  /\ quaternion # calibrationOffset

\* subscribing and unsubscribing leave the offset alone as well (in the
\* calibration and the subscriber specifications)
SubscriptionsKeepOffset ==
  [][(subs' # subs \/ callbacks' # callbacks \/ callbacksRot' # callbacksRot)
       => UNCHANGED calibrationOffset]_vars

(* ================== checksum and command packet claims ================= *)
\* the reference CRC-16/CCITT, bit by bit: the register starts at 0xFFFF;
\* each byte is XORed into its high half, then eight times the register is
\* shifted left by one, XORed with 0x1021 when the bit shifted out was 1
\* (the register is a 16-bit value at every point: a value outside 0..65535
\* ends the computation with the value)
RECURSIVE ReferenceBits(_, _)
ReferenceBits(reg, n) ==
  IF n = 0 \/ reg \notin 0..65535 THEN reg
  ELSE IF reg >= 32768
       THEN ReferenceBits(BitXor((reg * 2) % 65536, 4129), n - 1)
       ELSE ReferenceBits(reg * 2, n - 1)

RECURSIVE ReferenceCrc(_, _, _, _)
ReferenceCrc(data, i, end, reg) ==
  IF i >= end \/ reg \notin 0..65535 THEN reg
  ELSE ReferenceCrc(data, i + 1, end,
                    ReferenceBits(BitXor(reg, data[i + 1] * 256), 8))

\* C24: the value calcCrc16 returned for a byte buffer and a range inside it
\* is the reference CRC-16/CCITT of the bytes of the range, lies in 0..65535,
\* and is 0xFFFF when the range is empty; on the ASCII digits 1 to 9 it is
\* the check value 0x29B1 of the algorithm's catalogue.
C24_TableCrcIsReferenceCrc ==
  crcCall # NoCrcCall =>
    /\ crcCall.crc = ReferenceCrc(crcCall.data, crcCall.start,
                                  crcCall.start + crcCall.length, 65535)
    /\ crcCall.crc \in 0..65535
    /\ crcCall.length = 0 => crcCall.crc = 65535
    /\ (crcCall.data = <<49, 50, 51, 52, 53, 54, 55, 56, 57>>
          /\ crcCall.start = 0 /\ crcCall.length = 9) => crcCall.crc = 10673

\* C24 witness: the checksum of the nine digits came out as 0x29B1
C24_Witness ==
  /\ crcCall.data = <<49, 50, 51, 52, 53, 54, 55, 56, 57>>
  /\ crcCall.start = 0 /\ crcCall.length = 9
  /\ crcCall.crc = 10673

\* the 16-bit values a packet carries: its checksum, high byte first, at
\* offsets 2 and 3, and its message counter, low byte first, at 16 and 17
StoredCrc(packet) == packet[3] * 256 + packet[4]
PacketCounter(packet) == packet[17] + 256 * packet[18]
CrcOfTail(packet) == ReferenceCrc(packet, 4, Len(packet), 65535)

BuildStep ==
  \/ cmdCall' # cmdCall
  \/ (imuEnableCmd' # imuEnableCmd /\ imuEnableCmd' # <<>>)
BuiltPacket == IF cmdCall' # cmdCall THEN cmdCall'.packet ELSE imuEnableCmd'

C25_DiagnosticIffNoReportInWindow ==
  expired.call # 0 => (expired.warned <=> expired.arrived = 0)

\* C25 witness: the timer of the second call expired without a warning
\* although no event had been dispatched since it was set
C25_Witness ==
  /\ expired.call = 2
  /\ ~expired.warned
  /\ expired.arrived = 0
  /\ reportCount > 0

\* the part of C25 that holds: an expiry changes nothing of the session (the
\* connected flag, the interfaces, the sends made)
ExpiryLeavesSessionAlone ==
  [][expired' # expired
       => UNCHANGED <<sessionVars, hostVars, connVars, discVars>>]_vars

\* C28: between calls every open interface has at most one 'inputreport'
\* listener, and an event an interface dispatched has been handled exactly
\* once when its dispatch is over.
C28_OneListenerPerInterface ==
  /\ (Idle(cpc) /\ Idle(dpc)) => \A d \in Devs : opened[d] => Len(listeners[d]) <= 1
  /\ (Quiet /\ dispatch # NoDispatch) => dispatch.ran = 1

\* C28 witness: after a second call that found the interface open, one
\* report was dispatched and handled twice
C28_Witness ==
  /\ Idle(cpc) /\ Idle(dpc) /\ calls = 2
  /\ dispatch.dev \in Devs
  /\ opened[dispatch.dev] /\ Len(listeners[dispatch.dev]) = 2
  /\ Quiet /\ dispatch.ran = 2
  /\ delivered = 1 /\ reportCount = 2

(* =========================== forwarder claims ========================== *)
\* m * 2^e with the factors of two moved from m into e
RECURSIVE OddPart(_, _)
OddPart(m, e) == IF m % 2 = 0 /\ m > 0 THEN OddPart(m \div 2, e + 1) ELSE <<m, e>>

\* the number a receiver reads from the eight bytes at an offset of a
\* datagram, least significant byte first (IEEE 754 binary64)
Float64At(bytes, offset) ==
  LET b == [k \in 0..7 |-> bytes[offset + k + 1]]
      neg == b[7] >= 128
      biased == (b[7] % 128) * 16 + (b[6] \div 16)
      top28 == (b[6] % 16) * 16777216 + b[5] * 65536 + b[4] * 256 + b[3]
      low24 == b[2] * 65536 + b[1] * 256 + b[0]
  IN IF biased = 2047 THEN (IF top28 = 0 /\ low24 = 0 THEN Infinite(neg) ELSE NotANumber)
     ELSE IF biased = 0 /\ top28 = 0 /\ low24 = 0 THEN Finite(neg, 0, 0)
     ELSE IF biased = 0 \/ low24 # 0 THEN [kind |-> "other", neg |-> neg, m |-> 0, e |-> 0]
     ELSE LET odd == OddPart(268435456 + top28, biased - 1023 - 28)
          IN Finite(neg, odd[1], odd[2])

\* the datagram carries the message: 48 bytes for 127.0.0.1:5550, the six
\* fields at offsets 0, 8, 16, 24, 32, 40 in the order x, y, z, yaw, pitch, roll
Carries(datagram, r) ==
  /\ datagram.address = "127.0.0.1"
  /\ datagram.port = 5550
  /\ Len(datagram.bytes) = 48
  /\ \A k \in 1..48 : datagram.bytes[k] \in 0..255
  /\ Float64At(datagram.bytes, 0) = r.x
  /\ Float64At(datagram.bytes, 8) = r.y
  /\ Float64At(datagram.bytes, 16) = r.z
  /\ Float64At(datagram.bytes, 24) = r.yaw
  /\ Float64At(datagram.bytes, 32) = r.pitch
  /\ Float64At(datagram.bytes, 40) = r.roll

\* C26: every tracking-data message the forwarder received produced exactly
\* one datagram, of exactly 48 bytes, sent to 127.0.0.1:5550, whose six
\* little-endian 8-byte fields at offsets 0, 8, 16, 24, 32, 40 read back as x,
\* y, z, yaw, pitch, roll of that message
C26_OneDatagramPerMessage ==
  /\ Len(udpSent) = Len(received)
  /\ \A k \in 1..Len(received) : Carries(udpSent[k], received[k])

\* two messages were forwarded, the second with a yaw of 180 and an x of -1.5,
\* and the yaw field of its datagram holds the bytes of 180.0 (0x4066800000000000)
C26_Witness ==
  /\ Len(received) = 2
  /\ Len(udpSent) = 2
  /\ received[2].yaw = Finite(FALSE, 45, 2)
  /\ received[2].x = Finite(TRUE, 3, 0 - 1)
  /\ SubSeq(udpSent[2].bytes, 25, 32) = <<0, 0, 0, 0, 0, 128, 102, 64>>
  /\ SubSeq(udpSent[2].bytes, 1, 8) = <<0, 0, 0, 0, 0, 0, 248, 191>>


(* ========================== re-entrancy claims ========================= *)
\* the report handled last ran as one unit: its quaternion and Euler triple
\* are the parser's results on the state the report found, and every
\* invocation it made carried exactly these
HandledAsOneUnit ==
  (lastReport # NoReport /\ ~lastThrew) =>
    LET res == ParseReport(lastReport.bytes, before.rotation, before.quaternion,
                           before.calibrationOffset)
    IN /\ quaternion = res.quaternion
       /\ rotation = res.rotation
       /\ reportCounts[lastReport.index] >= 1
       /\ \A k \in 1..Len(notified) :
            notified[k].q = quaternion /\ notified[k].r = rotation

HoldsSubscription(chan, cb) ==
  \E n \in 1..Len(issued) :
    issued[n].chan = chan /\ issued[n].cb = cb /\ ~issued[n].revoked

\* the report handled last invoked cb on the channel
WasInvoked(chan, cb) ==
  \E k \in 1..Len(notified) : notified[k].chan = chan /\ notified[k].cb = cb

\* C30: when a sample is accepted, a callback is invoked on a channel if and
\* only if it holds a subscription on that channel whose unsubscribe function
\* has not been called (a callback subscribed twice stays subscribed after
\* the first of its two unsubscribe functions is called)
C30_InvokedIffSubscriptionHeld ==
  notified # <<>> =>
    \A chan \in {"quaternion", "rotation"}, cb \in SubscriberCbs :
      WasInvoked(chan, cb) <=> HoldsSubscription(chan, cb)

\* cb1 subscribed twice to the quaternion channel, the function returned by
\* the first call was called, and then a sample was accepted
C30_Witness ==
  /\ Len(issued) = 2
  /\ issued[1] = [chan |-> "quaternion", cb |-> "cb1", revoked |-> TRUE]
  /\ issued[2] = [chan |-> "quaternion", cb |-> "cb1", revoked |-> FALSE]
  /\ notified # <<>>
  /\ ~lastThrew

\* a callback is never invoked without a subscription it still holds
InvokedOnlyWhenSubscribed ==
  \A chan \in {"quaternion", "rotation"}, cb \in SubscriberCbs :
    WasInvoked(chan, cb) => HoldsSubscription(chan, cb)


(* ============================ overlap claims =========================== *)
\* the engine is marked connected, with a primary interface, an interface
\* set and an open interface among them
ConnectedSession ==
  /\ connected
  /\ device \notin {NullDev, UndefDev}
  /\ ~allDevices.null
  /\ \E k \in 1..Len(allDevices.devs) : opened[allDevices.devs[k]]

\* the engine is marked not connected and no interface is open with a
\* listener of the engine on it
NoSession ==
  /\ ~connected
  /\ \A d \in Devs : ~(opened[d] /\ listeners[d] # <<>>)

\* C29: once a connect (or checkExistingConnection) and a disconnect that may
\* have overlapped have both completed, the engine either is connected with
\* a primary interface, an interface set and an open interface, or is not
\* connected with no interface left open and delivering reports
C29_ConsistentAfterOverlap ==
  (cpc = "done" /\ dpc = "done") => (ConnectedSession \/ NoSession)

\* a connect and a disconnect have both completed, the connect returned the
\* device information, and the engine is not connected although an interface
\* the connect listened on is open
C29_Witness ==
  /\ cpc = "done" /\ dpc = "done"
  /\ cKind = "connect" /\ cResult.status = "ok"
  /\ closeLog # <<>>
  /\ ~connected
  /\ \E d \in Devs : opened[d] /\ \E k \in 1..Len(listeners[d]) : listeners[d][k].call = calls


(* =========================== XR session claims ========================= *)
\* C31: a callback registered with requestAnimationFrame is invoked at most
\* once, and (while the session runs) on the next frame unless the handle its
\* registration returned was cancelled: cancelling a handle never suppresses
\* a callback of another registration
C31_CancelSuppressesOnlyItsOwn ==
  \A n \in 1..Len(registered) :
    /\ registered[n].invoked <= 1
    /\ (registered[n].frame < frames /\ ~registered[n].cancelled)
         => registered[n].invoked = 1
    /\ registered[n].invoked = 1 => registered[n].frame < frames

\* a handle was cancelled after its callback had run, a callback registered
\* later got the same handle, was not cancelled, and a frame has run since
C31_Witness ==
  \E n, m \in 1..Len(registered) :
    /\ n < m
    /\ registered[n].handle = registered[m].handle
    /\ registered[n].invoked = 1 /\ registered[n].cancelled
    /\ ~registered[m].cancelled
    /\ registered[m].frame < frames

\* no callback runs twice, and none runs before the frame after its
\* registration
InvokedAtMostOnceOnALaterFrame ==
  \A n \in 1..Len(registered) :
    /\ registered[n].invoked <= 1
    /\ registered[n].invoked = 1 => registered[n].frame < frames


(* ========================= device selection claims ===================== *)
\* C32: the callback of a select-hid-device request is invoked at most once
\* and only with the id the user selected for that request, and a selection
\* made for a request stays held for it until its callback is invoked: it is
\* neither discarded nor consumed by another request
C32_SelectionReachesItsRequest ==
  \A r \in 1..Len(requests) :
    /\ Len(requests[r].called) <= 1
    /\ requests[r].called # <<>> => requests[r].called[1] = requests[r].chosen
    /\ (requests[r].chosen # NullSelection /\ requests[r].called = <<>>)
         => (selectedFor = r /\ selectedDevice = requests[r].chosen)

\* two requests overlapped and the user selected once for each: the callback
\* of the first was invoked with the device selected for the second, whose
\* handler is left polling with nothing selected
C32_Witness ==
  /\ Len(requests) = 2
  /\ requests[1].chosen = "hidA" /\ requests[2].chosen = "hidB"
  /\ requests[1].called = <<"hidB">>
  /\ requests[2].pc = "polling" /\ requests[2].called = <<>>
  /\ selectedDevice = NullSelection

\* no callback is invoked twice, nor for an empty device list
CallbackAtMostOnce ==
  \A r \in 1..Len(requests) :
    /\ Len(requests[r].called) <= 1
    /\ requests[r].list = {} => requests[r].called = <<>>

====
